---------------------------- MODULE Spec2Model ----------------------------
(***************************************************************************)
(* Model of the card_logic/poker package: the hand evaluator, the discard  *)
(* strategy and the robot command sequencer.                               *)
(*                                                                         *)
(* A card is the tuple <<rank, suit>> of card.py.  A hand is a sequence of *)
(* slots; Python's 0-based position p is hand[p + 1] here, and every       *)
(* position the code returns is kept 0-based (1-based for the robot), as   *)
(* in the code.  A text is a sequence of one-character strings.            *)
(***************************************************************************)
EXTENDS Integers, Sequences, FiniteSets, TLC

VARIABLES
    hand,        \* the hand passed to the call: 5 slots, a card or None each
    hand2,       \* compare_hands: the second hand
    hand3,       \* compare_hands: a third hand, compared with the other two
    mode,        \* the strategy mode passed to the call
    pc,          \* "start", then the name of the call that has returned
    raised,      \* the exception that left the call, or NoException
    evaluation,  \* what HandEvaluator.evaluate returned
    straight,    \* what HandEvaluator._check_straight returned
    discards,    \* what get_cards_to_discard returned
    actions,     \* what get_poker_actions returned, or the list given to
                 \* count_swaps and get_swap_positions
    comparison,  \* what compare_hands returned, per pair of hands
    text,        \* the action string passed to parse_action
    parsed,      \* what parse_action returned
    swap_count,  \* what count_swaps returned
    swap_positions,  \* what get_swap_positions returned
    used,        \* Deck._used_cards
    rng,         \* Deck._rng: the state of the generator
    arg,         \* the argument of the Deck call that has returned
    drawn,       \* what draw_card, draw_cards or generate_initial_hand returned
    remaining,   \* what remaining_count returned
    calls,       \* how many calls the Deck has served
    threads,     \* per thread inside draw_card: its position and its locals
    rounds,      \* demo_multi_round: the argument rounds
    round_num,   \* demo_multi_round: the rounds begun
    trash        \* demo_multi_round: the cards the loop replaced (old_card)

\* the Deck, the threads inside it and the loop of demo_multi_round
deckVars == <<used, rng, arg, drawn, remaining, calls, threads, rounds, round_num,
              trash>>

vars == <<hand, hand2, hand3, mode, pc, raised, evaluation, straight, discards,
          actions, comparison, text, parsed, swap_count, swap_positions, deckVars>>

-----------------------------------------------------------------------------
(* Python built-ins used by the package                                    *)

\* None
None == <<>>

\* set(seq)
Range(s) == {s[i] : i \in 1..Len(s)}

\* the indices k of the first n entries of keep with keep[k], ascending
RECURSIVE IndicesKept(_, _)
IndicesKept(keep, n) ==
    IF n = 0 THEN <<>>
    ELSE IF keep[n] THEN Append(IndicesKept(keep, n - 1), n)
    ELSE IndicesKept(keep, n - 1)

\* [i for i, x in enumerate(seq) if keep(x)], given keep per element: the
\* 1-based indices, ascending
SelectIdx(keep) == IndicesKept(keep, Len(keep))

\* list.sort(key=...) on a list of <<key, payload>> pairs: stable, ascending
RECURSIVE InsertByKey(_, _)
InsertByKey(sorted, x) ==
    IF sorted = <<>> THEN <<x>>
    ELSE IF x[1] < Head(sorted)[1] THEN <<x>> \o sorted
    ELSE <<Head(sorted)>> \o InsertByKey(Tail(sorted), x)

RECURSIVE SortByKey(_)
SortByKey(s) ==
    IF s = <<>> THEN <<>>
    ELSE InsertByKey(SortByKey(SubSeq(s, 1, Len(s) - 1)), s[Len(s)])

\* sorted(list_of_int, reverse=True)
sorted_reverse(s) ==
    LET keyed == SortByKey([i \in 1..Len(s) |-> <<0 - s[i], s[i]>>])
    IN  [i \in 1..Len(s) |-> keyed[i][2]]

\* collections.Counter(seq).items(): <<key, count>> in first-seen key order
Counter(s) ==
    LET first == SelectIdx([i \in 1..Len(s) |-> \A j \in 1..(i - 1) : s[j] # s[i]])
    IN  [k \in 1..Len(first) |->
            <<s[first[k]], Cardinality({j \in 1..Len(s) : s[j] = s[first[k]]})>>]

\* sorted(set(list_of_int), reverse=True)
sorted_set_reverse(s) ==
    LET first == SelectIdx([i \in 1..Len(s) |-> \A j \in 1..(i - 1) : s[j] # s[i]])
    IN  sorted_reverse([k \in 1..Len(first) |-> s[first[k]]])

\* [r for r, c in counter.items() if c == n]
KeysWithCount(items, n) ==
    LET idx == SelectIdx([i \in 1..Len(items) |-> items[i][2] = n])
    IN  [k \in 1..Len(idx) |-> items[idx[k]][1]]

\* n in counter.values()
InValues(items, n) == \E i \in 1..Len(items) : items[i][2] = n

-----------------------------------------------------------------------------
(* card.py                                                                 *)

RANKS == 2..14

SUITS == <<"H", "D", "C", "S">>

\* [(rank, suit) for suit in SUITS for rank in RANKS]
create_full_deck ==
    [k \in 1..52 |-> <<2 + ((k - 1) % 13), SUITS[1 + ((k - 1) \div 13)]>>]

-----------------------------------------------------------------------------
(* deck.py                                                                 *)
(*                                                                         *)
(* random.Random is modelled by a small congruential generator: as in the  *)
(* code, a draw is a function of the seed and of the number of values the  *)
(* generator has given; which stream a seed gives is not the library's.    *)

\* random.Random(seed): the state of the generator after seeding
Random(seed) == seed % 1024

\* the state of the generator after it gave one value
rng_next(g) == (69 * g + 47) % 1024

\* Random._randbelow(n): the value the generator gives in state g, below n
randbelow(g, n) == (g \div 8) % n

\* Random.choice(seq): seq[self._randbelow(len(seq))]
choice(g, seq) == seq[randbelow(g, Len(seq)) + 1]

available_AllCards(u) == create_full_deck

\* line 36 of draw_card: [c for c in self._all_cards if c not in self._used_cards]
available(u) ==
    LET idx == SelectIdx([k \in 1..Len(create_full_deck) |->
                             create_full_deck[k] \notin u])
    IN  [i \in 1..Len(idx) |-> create_full_deck[idx[i]]]

\* lines 37-41 of draw_card, given the list of line 36: the card returned, the
\* used set and the generator after the call
ChooseAndAdd(av, u, g) ==
    IF av = <<>>
    THEN [card |-> None, used |-> u, rng |-> g]
    ELSE [card |-> choice(g, av),
          used |-> u \cup {choice(g, av)},
          rng |-> rng_next(g)]

\* Deck.draw_card
draw_card(u, g) == ChooseAndAdd(available(u), u, g)

range_OneMore(count) == count + 1

\* len(range(count))
range(count) == IF count < 0 THEN 0 ELSE count

\* lines 54-58 of draw_cards: n more passes of the loop, from what the
\* calls of draw_card so far gave: the cards appended, and d, the last
\* card returned with the used set and the generator it left
RECURSIVE DrawLoop(_, _, _)
DrawLoop(cards, d, n) ==
    IF n = 0 \/ d.card = None THEN [cards |-> cards, used |-> d.used, rng |-> d.rng]
    ELSE DrawLoop(Append(cards, d.card),
                  IF n = 1 THEN d ELSE draw_card(d.used, d.rng), n - 1)

\* Deck.draw_cards
draw_cards(u, g, count) ==
    IF range(count) = 0 THEN [cards |-> <<>>, used |-> u, rng |-> g]
    ELSE DrawLoop(<<>>, draw_card(u, g), range(count))

\* Deck.generate_initial_hand
generate_initial_hand(u, g) == draw_cards(u, g, 5)

\* Deck.mark_used
mark_used(u, card) == u \cup {card}

\* Deck.mark_cards_used
mark_cards_used(u, cards) == u \cup Range(cards)

\* Deck.remaining_count
remaining_count(u) == 52 - Cardinality(u)

-----------------------------------------------------------------------------
(* hand_evaluator.py                                                       *)

HIGH_CARD == 0
ONE_PAIR == 1
TWO_PAIR == 2
THREE_OF_A_KIND == 3
STRAIGHT == 4
FLUSH == 5
FULL_HOUSE == 6
FOUR_OF_A_KIND == 7
STRAIGHT_FLUSH == 8
ROYAL_FLUSH == 9

HAND_NAMES ==
    <<"High Card", "One Pair", "Two Pair", "Three of a Kind", "Straight", "Flush",
      "Full House", "Four of a Kind", "Straight Flush", "Royal Flush">>

\* no exception left the call
NoException == "none"

\* the exception that leaves HandEvaluator.evaluate: the ValueError it raises
\* for a wrong size, or the TypeError of c[0] on a None slot
evaluate_raises(h) ==
    IF Len(h) # 5 THEN "ValueError"
    ELSE IF \E i \in 1..5 : h[i] = None THEN "TypeError"
    ELSE NoException

\* _check_straight without its wheel branch (lines 139-140)
check_straight_NoWheel(ranks) ==
    LET sorted_ranks == sorted_set_reverse(ranks)
    IN  IF Len(sorted_ranks) # 5 THEN <<FALSE, 0>>
        ELSE IF sorted_ranks[1] - sorted_ranks[5] = 4 THEN <<TRUE, sorted_ranks[1]>>
        ELSE <<FALSE, 0>>

\* HandEvaluator._check_straight: <<is_straight, high_card_rank>>
check_straight(ranks) ==
    LET sorted_ranks == sorted_set_reverse(ranks)
    IN  IF Len(sorted_ranks) # 5 THEN <<FALSE, 0>>
        ELSE IF sorted_ranks[1] - sorted_ranks[5] = 4 THEN <<TRUE, sorted_ranks[1]>>
        ELSE IF sorted_ranks = <<14, 5, 4, 3, 2>> THEN <<TRUE, 5>>
        ELSE <<FALSE, 0>>

\* the cascade with "Three of a kind" tested where "Full house" is, and
\* "Full house" after it
EvaluateCascade_TripsFirst(ranks, rank_counts, is_flush, st) ==
    IF is_flush /\ st[1] /\ st[2] = 14
        THEN <<ROYAL_FLUSH, <<14>>, "Royal Flush">>
    ELSE IF is_flush /\ st[1]
        THEN <<STRAIGHT_FLUSH, <<st[2]>>, "Straight Flush">>
    ELSE IF InValues(rank_counts, 4)
        THEN <<FOUR_OF_A_KIND,
               <<KeysWithCount(rank_counts, 4)[1], KeysWithCount(rank_counts, 1)[1]>>,
               "Four of a Kind">>
    ELSE IF InValues(rank_counts, 3)
        THEN <<THREE_OF_A_KIND,
               <<KeysWithCount(rank_counts, 3)[1]>>
                   \o sorted_reverse(KeysWithCount(rank_counts, 1)),
               "Three of a Kind">>
    ELSE IF is_flush THEN <<FLUSH, ranks, "Flush">>
    ELSE IF st[1] THEN <<STRAIGHT, <<st[2]>>, "Straight">>
    ELSE IF Len(KeysWithCount(rank_counts, 2)) = 2
        THEN <<TWO_PAIR,
               sorted_reverse(KeysWithCount(rank_counts, 2))
                   \o <<KeysWithCount(rank_counts, 1)[1]>>,
               "Two Pair">>
    ELSE IF Len(KeysWithCount(rank_counts, 2)) = 1
        THEN <<ONE_PAIR,
               <<KeysWithCount(rank_counts, 2)[1]>>
                   \o sorted_reverse(KeysWithCount(rank_counts, 1)),
               "One Pair">>
    ELSE <<HIGH_CARD, ranks, "High Card">>

\* the cascade with the full house's tiebreakers as [pair_rank, trip_rank] and
\* the two pairs left in the order the Counter gives them, lowest first
EvaluateCascade_KeysSwapped(ranks, rank_counts, is_flush, st) ==
    IF is_flush /\ st[1] /\ st[2] = 14
        THEN <<ROYAL_FLUSH, <<14>>, "Royal Flush">>
    ELSE IF is_flush /\ st[1]
        THEN <<STRAIGHT_FLUSH, <<st[2]>>, "Straight Flush">>
    ELSE IF InValues(rank_counts, 4)
        THEN <<FOUR_OF_A_KIND,
               <<KeysWithCount(rank_counts, 4)[1], KeysWithCount(rank_counts, 1)[1]>>,
               "Four of a Kind">>
    ELSE IF InValues(rank_counts, 3) /\ InValues(rank_counts, 2)
        THEN <<FULL_HOUSE,
               <<KeysWithCount(rank_counts, 2)[1], KeysWithCount(rank_counts, 3)[1]>>,
               "Full House">>
    ELSE IF is_flush THEN <<FLUSH, ranks, "Flush">>
    ELSE IF st[1] THEN <<STRAIGHT, <<st[2]>>, "Straight">>
    ELSE IF InValues(rank_counts, 3)
        THEN <<THREE_OF_A_KIND,
               <<KeysWithCount(rank_counts, 3)[1]>>
                   \o sorted_reverse(KeysWithCount(rank_counts, 1)),
               "Three of a Kind">>
    ELSE IF Len(KeysWithCount(rank_counts, 2)) = 2
        THEN <<TWO_PAIR,
               <<KeysWithCount(rank_counts, 2)[2], KeysWithCount(rank_counts, 2)[1],
                 KeysWithCount(rank_counts, 1)[1]>>,
               "Two Pair">>
    ELSE IF Len(KeysWithCount(rank_counts, 2)) = 1
        THEN <<ONE_PAIR,
               <<KeysWithCount(rank_counts, 2)[1]>>
                   \o sorted_reverse(KeysWithCount(rank_counts, 1)),
               "One Pair">>
    ELSE <<HIGH_CARD, ranks, "High Card">>

\* lines 73-115 of HandEvaluator.evaluate: the cascade over the categories,
\* given ranks (sorted descending), rank_counts (its Counter items), is_flush
\* and st = <<is_straight, straight_high>>
EvaluateCascade(ranks, rank_counts, is_flush, st) ==
    IF is_flush /\ st[1] /\ st[2] = 14
        THEN <<ROYAL_FLUSH, <<14>>, "Royal Flush">>
    ELSE IF is_flush /\ st[1]
        THEN <<STRAIGHT_FLUSH, <<st[2]>>, "Straight Flush">>
    ELSE IF InValues(rank_counts, 4)
        THEN <<FOUR_OF_A_KIND,
               <<KeysWithCount(rank_counts, 4)[1], KeysWithCount(rank_counts, 1)[1]>>,
               "Four of a Kind">>
    ELSE IF InValues(rank_counts, 3) /\ InValues(rank_counts, 2)
        THEN <<FULL_HOUSE,
               <<KeysWithCount(rank_counts, 3)[1], KeysWithCount(rank_counts, 2)[1]>>,
               "Full House">>
    ELSE IF is_flush THEN <<FLUSH, ranks, "Flush">>
    ELSE IF st[1] THEN <<STRAIGHT, <<st[2]>>, "Straight">>
    ELSE IF InValues(rank_counts, 3)
        THEN <<THREE_OF_A_KIND,
               <<KeysWithCount(rank_counts, 3)[1]>>
                   \o sorted_reverse(KeysWithCount(rank_counts, 1)),
               "Three of a Kind">>
    ELSE IF Len(KeysWithCount(rank_counts, 2)) = 2
        THEN <<TWO_PAIR,
               sorted_reverse(KeysWithCount(rank_counts, 2))
                   \o <<KeysWithCount(rank_counts, 1)[1]>>,
               "Two Pair">>
    ELSE IF Len(KeysWithCount(rank_counts, 2)) = 1
        THEN <<ONE_PAIR,
               <<KeysWithCount(rank_counts, 2)[1]>>
                   \o sorted_reverse(KeysWithCount(rank_counts, 1)),
               "One Pair">>
    ELSE <<HIGH_CARD, ranks, "High Card">>

\* lines 67-71 of HandEvaluator.evaluate: rank_counts, is_flush and the call of
\* _check_straight, given ranks (sorted descending) and suits
EvaluateSorted(ranks, suits) ==
    EvaluateCascade(ranks, Counter(ranks), Cardinality(Range(suits)) = 1,
                    check_straight(ranks))

\* evaluate with ranks left in slot order (line 59 without its sort)
evaluate_Unsorted(h) ==
    EvaluateSorted([i \in 1..5 |-> h[i][1]], [i \in 1..5 |-> h[i][2]])

\* HandEvaluator.evaluate, when it returns:
\* <<rank_value, tiebreaker_ranks, hand_name>>
evaluate(h) ==
    EvaluateSorted(sorted_reverse([i \in 1..5 |-> h[i][1]]), [i \in 1..5 |-> h[i][2]])

\* line 59 as hand.sort(reverse=True): the list given is sorted in place
HandAfterSorted_InPlace(h) ==
    [i \in 1..Len(h) |->
        SortByKey([k \in 1..Len(h) |-> <<0 - h[k][1], h[k]>>])[i][2]]

\* the list given to evaluate, after line 59: sorted(...) and the list
\* comprehensions build new lists, and the list given is left as it is
HandAfterSorted(h) == h

\* the tiebreaker loop of compare_hands over zip(eval1[1], eval2[1]) from
\* entry k on
RECURSIVE CompareTiebreakers(_, _, _)
CompareTiebreakers(t1, t2, k) ==
    IF k > Len(t1) \/ k > Len(t2) THEN 0
    ELSE IF t1[k] # t2[k] THEN (IF t1[k] > t2[k] THEN 1 ELSE -1)
    ELSE CompareTiebreakers(t1, t2, k + 1)

\* compare_hands with its tiebreaker loop stopped after the first entry
CompareEvaluations_FirstTiebreaker(eval1, eval2) ==
    IF eval1[1] # eval2[1] THEN (IF eval1[1] > eval2[1] THEN 1 ELSE -1)
    ELSE CompareTiebreakers(<<eval1[2][1]>>, <<eval2[2][1]>>, 1)

\* lines 163-168 of compare_hands, given the two evaluations
CompareEvaluations(eval1, eval2) ==
    IF eval1[1] # eval2[1] THEN (IF eval1[1] > eval2[1] THEN 1 ELSE -1)
    ELSE CompareTiebreakers(eval1[2], eval2[2], 1)

\* HandEvaluator.compare_hands
compare_hands(hand_1, hand_2) == CompareEvaluations(evaluate(hand_1), evaluate(hand_2))

-----------------------------------------------------------------------------
(* strategy.py                                                             *)

MAX_SWAP_PER_ROUND == 3

\* KEEP_THRESHOLD with 'standard' one category too low
threshold_StandardKeepsTrips(m) ==
    CASE m = "conservative" -> FULL_HOUSE
      [] m = "standard" -> THREE_OF_A_KIND
      [] m = "aggressive" -> FOUR_OF_A_KIND
      [] OTHER -> STRAIGHT

\* KEEP_THRESHOLD with 'aggressive' keeping two pair and better
threshold_AggressiveKeepsTwoPair(m) ==
    CASE m = "conservative" -> FULL_HOUSE
      [] m = "standard" -> STRAIGHT
      [] m = "aggressive" -> TWO_PAIR
      [] OTHER -> STRAIGHT

\* KEEP_THRESHOLD.get with One Pair as the default
threshold_UnknownModeKeepsPair(m) ==
    CASE m = "conservative" -> FULL_HOUSE
      [] m = "standard" -> STRAIGHT
      [] m = "aggressive" -> FOUR_OF_A_KIND
      [] OTHER -> ONE_PAIR

\* PokerStrategy.__init__: KEEP_THRESHOLD.get(mode, STRAIGHT)
threshold(m) ==
    CASE m = "conservative" -> FULL_HOUSE
      [] m = "standard" -> STRAIGHT
      [] m = "aggressive" -> FOUR_OF_A_KIND
      [] OTHER -> STRAIGHT

\* seq[:n]
Prefix(s, n) == SubSeq(s, 1, IF n < Len(s) THEN n ELSE Len(s))

\* [i for i, card in enumerate(hand) if keep(card)], given keep per slot:
\* positions 0-based
PositionsWhere(keep) ==
    LET idx == SelectIdx(keep)
    IN  [k \in 1..Len(idx) |-> idx[k] - 1]

\* lines 147-150 of _find_straight_draw: candidates after the entry
\* <<rank, pos>> of ranks_with_pos
AddCandidate(candidates, base_rank, entry) ==
    IF /\ base_rank <= entry[1]
       /\ entry[1] <= base_rank + 4
       /\ entry[2] \notin {candidates[j][2] : j \in 1..Len(candidates)}
    THEN Append(candidates, entry)
    ELSE candidates

\* the inner loop of _find_straight_draw over the first k entries of
\* ranks_with_pos: the candidates list of <<rank, pos>>
RECURSIVE Candidates(_, _, _)
Candidates(ranks_with_pos, base_rank, k) ==
    IF k = 0 THEN <<>>
    ELSE AddCandidate(Candidates(ranks_with_pos, base_rank, k - 1), base_rank,
                      ranks_with_pos[k])

RECURSIVE ScanBases(_, _)
RECURSIVE CheckCandidates(_, _, _)

\* lines 152-159 of _find_straight_draw for the candidates of base i
CheckCandidates(ranks_with_pos, i, candidates) ==
    IF /\ Cardinality({candidates[j][1] : j \in 1..Len(candidates)}) >= 4
       /\ Cardinality({candidates[j][2] : j \in 1..Len(Prefix(candidates, 4))}) = 4
    THEN [found |-> TRUE,
          keep |-> {candidates[j][2] : j \in 1..Len(Prefix(candidates, 4))}]
    ELSE ScanBases(ranks_with_pos, i + 1)

\* the outer loop of _find_straight_draw from index i on: best_keep, the
\* positions to keep, or None (found = FALSE)
ScanBases(ranks_with_pos, i) ==
    IF i > Len(ranks_with_pos) THEN [found |-> FALSE, keep |-> {}]
    ELSE CheckCandidates(ranks_with_pos, i,
             Candidates(ranks_with_pos, ranks_with_pos[i][1], Len(ranks_with_pos)))

\* lines 130-132 of _find_straight_draw: (1, pos) for each ace position
LowAces(ace_positions) == [k \in 1..Len(ace_positions) |-> <<1, ace_positions[k]>>]

\* _find_straight_draw without lines 130-132: the ace counts high only
find_straight_draw_AceHighOnly(h) ==
    ScanBases(SortByKey([i \in 1..Len(h) |-> <<h[i][1], i - 1>>]), 1)

\* PokerStrategy._find_straight_draw
find_straight_draw(h) ==
    ScanBases(SortByKey([i \in 1..Len(h) |-> <<h[i][1], i - 1>>]
                        \o LowAces(PositionsWhere([i \in 1..Len(h) |-> h[i][1] = 14]))),
              1)

\* the "four to a flush" loop of get_cards_to_discard over suit_counts.items()
\* from entry k on: the discard positions of the first suit counted 4 times
RECURSIVE FlushDrawDiscards(_, _, _)
FlushDrawDiscards(h, suit_counts, k) ==
    IF k > Len(suit_counts) THEN <<>>
    ELSE IF suit_counts[k][2] = 4
         THEN PositionsWhere([i \in 1..Len(h) |-> h[i][2] # suit_counts[k][1]])
         ELSE FlushDrawDiscards(h, suit_counts, k + 1)

\* lines 104-105: [i for i in range(5) if i not in straight_keep], or nothing
\* when straight_keep is None
StraightDrawDiscards(straight_keep) ==
    IF straight_keep.found
    THEN PositionsWhere([i \in 1..5 |-> (i - 1) \notin straight_keep.keep])
    ELSE <<>>

\* lines 109-111 giving holder numbers (1-based) where positions are meant
LowestThree_HolderNumbers(indexed_ranks) ==
    [k \in 1..Len(Prefix(indexed_ranks, 3)) |-> indexed_ranks[k][2] + 1]

\* lines 109-111 with the slice taken from the other end: the three highest
LowestThree_Highest(indexed_ranks) ==
    [k \in 1..3 |-> indexed_ranks[Len(indexed_ranks) - 3 + k][2]]

\* lines 109-111: the positions of the three lowest ranks, by a stable sort
LowestThree(indexed_ranks) ==
    [k \in 1..Len(Prefix(indexed_ranks, 3)) |-> indexed_ranks[k][2]]

IfNot_Never(discard_positions, next_rule) == discard_positions

\* "if not discard_positions:": discard_positions, or the next rule's
IfNot(discard_positions, next_rule) ==
    IF discard_positions = <<>> THEN next_rule ELSE discard_positions

\* the high-card branch with the straight draw looked for before the flush
\* draw
HighCardDiscards_StraightDrawFirst(h) ==
    IfNot(StraightDrawDiscards(find_straight_draw(h)),
          IfNot(FlushDrawDiscards(h, Counter([i \in 1..Len(h) |-> h[i][2]]), 1),
                LowestThree(SortByKey([i \in 1..Len(h) |-> <<h[i][1], i - 1>>]))))

\* the high-card branch of get_cards_to_discard (lines 94-111)
HighCardDiscards(h) ==
    IfNot(FlushDrawDiscards(h, Counter([i \in 1..Len(h) |-> h[i][2]]), 1),
          IfNot(StraightDrawDiscards(find_straight_draw(h)),
                LowestThree(SortByKey([i \in 1..Len(h) |-> <<h[i][1], i - 1>>]))))

\* discard_positions with two pair treated as one pair: every card that is
\* not of the first pair's rank
DiscardPositions_TwoPairAsOnePair(h, hand_rank, rank_counts) ==
    IF hand_rank = 3
    THEN PositionsWhere([i \in 1..Len(h) |-> h[i][1] # KeysWithCount(rank_counts, 3)[1]])
    ELSE IF hand_rank = 2 \/ hand_rank = 1
    THEN PositionsWhere([i \in 1..Len(h) |-> h[i][1] # KeysWithCount(rank_counts, 2)[1]])
    ELSE HighCardDiscards(h)

\* lines 78-111 of get_cards_to_discard: discard_positions by hand_rank
DiscardPositions(h, hand_rank, rank_counts) ==
    IF hand_rank = 3
    THEN PositionsWhere([i \in 1..Len(h) |-> h[i][1] # KeysWithCount(rank_counts, 3)[1]])
    ELSE IF hand_rank = 2
    THEN PositionsWhere([i \in 1..Len(h) |->
                            h[i][1] \notin Range(KeysWithCount(rank_counts, 2))])
    ELSE IF hand_rank = 1
    THEN PositionsWhere([i \in 1..Len(h) |-> h[i][1] # KeysWithCount(rank_counts, 2)[1]])
    ELSE HighCardDiscards(h)

\* get_cards_to_discard without the returns of lines 60-76: only the
\* threshold keeps a hand
DiscardByRank_ThresholdOnly(h, th, hand_rank) ==
    IF hand_rank >= th THEN <<>>
    ELSE Prefix(DiscardPositions(h, hand_rank, Counter([i \in 1..Len(h) |-> h[i][1]])),
                MAX_SWAP_PER_ROUND)

\* lines 51-114 of get_cards_to_discard, given hand_rank
DiscardByRank(h, th, hand_rank) ==
    IF hand_rank >= th THEN <<>>
    ELSE IF hand_rank = FOUR_OF_A_KIND THEN <<>>
    ELSE IF hand_rank = FULL_HOUSE THEN <<>>
    ELSE IF hand_rank = FLUSH THEN <<>>
    ELSE IF hand_rank = STRAIGHT THEN <<>>
    ELSE Prefix(DiscardPositions(h, hand_rank, Counter([i \in 1..Len(h) |-> h[i][1]])),
                MAX_SWAP_PER_ROUND)

\* PokerStrategy.get_cards_to_discard, for a strategy of threshold th, when
\* it returns (evaluate's exception leaves it otherwise)
get_cards_to_discard(h, th) == DiscardByRank(h, th, evaluate(h)[1])

\* get_discard_positions(hand, mode)
get_discard_positions(h, m) == get_cards_to_discard(h, threshold(m))

-----------------------------------------------------------------------------
(* robot_actions.py                                                        *)

\* the action texts, one character per entry
TAKE_CARD_ == <<"t", "a", "k", "e", " ", "c", "a", "r", "d", " ">>
PLACE_AT_ == <<"p", "l", "a", "c", "e", " ", "a", "t", " ">>
DEFAULT_POSITION == <<"d", "e", "f", "a", "u", "l", "t", " ", "p", "o", "s", "i", "t", "i", "o", "n">>
DROP_HOLDING == <<"d", "r", "o", "p", " ", "h", "o", "l", "d", "i", "n", "g">>
TAKE_DECK == <<"t", "a", "k", "e", " ", "d", "e", "c", "k">>

\* str(n) for one digit
DigitText(n) == <<"0", "1", "2", "3", "4", "5", "6", "7", "8", "9">>[n + 1]

\* str(n) for n >= 0, as a format field of an f-string
RECURSIVE IntToText(_)
IntToText(n) ==
    IF n < 10 THEN <<DigitText(n)>>
    ELSE Append(IntToText(n \div 10), DigitText(n % 10))

\* f"take card {holder_pos}"
take_card(holder_pos) == TAKE_CARD_ \o IntToText(holder_pos)

\* f"place at {holder_pos}"
place_at(holder_pos) == PLACE_AT_ \o IntToText(holder_pos)

\* the four appends of generate_fill_actions for one empty position
FillBlock(pos) ==
    <<TAKE_DECK, DEFAULT_POSITION, place_at(pos + 1), DEFAULT_POSITION>>

\* the eight appends with the new card placed at pos where pos + 1 is meant
SwapBlock_PlaceAtIndex(pos) ==
    <<take_card(pos + 1), DEFAULT_POSITION,
      DROP_HOLDING, DEFAULT_POSITION,
      TAKE_DECK, DEFAULT_POSITION,
      place_at(pos), DEFAULT_POSITION>>

\* the appends without the two of "drop holding"
SwapBlock_NoDrop(pos) ==
    <<take_card(pos + 1), DEFAULT_POSITION,
      TAKE_DECK, DEFAULT_POSITION,
      place_at(pos + 1), DEFAULT_POSITION>>

\* the eight appends of generate_swap_actions for one discarded position
SwapBlock(pos) ==
    <<take_card(pos + 1), DEFAULT_POSITION,
      DROP_HOLDING, DEFAULT_POSITION,
      TAKE_DECK, DEFAULT_POSITION,
      place_at(pos + 1), DEFAULT_POSITION>>

\* the loop of generate_fill_actions over the first k slots
RECURSIVE FillLoop(_, _)
FillLoop(h, k) ==
    IF k = 0 THEN <<>>
    ELSE IF h[k] = None THEN FillLoop(h, k - 1) \o FillBlock(k - 1)
    ELSE FillLoop(h, k - 1)

\* generate_fill_actions without the test "if card is None": a block for
\* every slot
generate_fill_actions_EverySlot(h) ==
    FillBlock(0) \o FillBlock(1) \o FillBlock(2) \o FillBlock(3) \o FillBlock(4)

\* generate_fill_actions(hand)
generate_fill_actions(h) == FillLoop(h, Len(h))

\* the loop of generate_swap_actions over the first k discard positions
RECURSIVE SwapLoop(_, _)
SwapLoop(discard_positions, k) ==
    IF k = 0 THEN <<>>
    ELSE SwapLoop(discard_positions, k - 1) \o SwapBlock(discard_positions[k])

\* generate_swap_actions looping over reversed(discard_positions)
SwapActions_Reversed(discard_positions) ==
    SwapLoop([k \in 1..Len(discard_positions) |->
                 discard_positions[Len(discard_positions) + 1 - k]],
             Len(discard_positions))

\* lines 66-92 of generate_swap_actions, given discard_positions
SwapActions(discard_positions) ==
    IF discard_positions = <<>> THEN <<>>
    ELSE SwapLoop(discard_positions, Len(discard_positions))

\* generate_swap_actions(hand, strategy), for a strategy of threshold th
generate_swap_actions(h, th) == SwapActions(get_cards_to_discard(h, th))

\* the characters str.strip() trims and str.split() splits at
WHITESPACE == {" ", "\t", "\n", "\r"}

\* str.strip()
RECURSIVE strip(_)
strip(t) ==
    IF t = <<>> THEN t
    ELSE IF t[1] \in WHITESPACE THEN strip(Tail(t))
    ELSE IF t[Len(t)] \in WHITESPACE THEN strip(SubSeq(t, 1, Len(t) - 1))
    ELSE t

UPPERCASE ==
    <<"A", "B", "C", "D", "E", "F", "G", "H", "I", "J", "K", "L", "M",
      "N", "O", "P", "Q", "R", "S", "T", "U", "V", "W", "X", "Y", "Z">>

LOWERCASE ==
    <<"a", "b", "c", "d", "e", "f", "g", "h", "i", "j", "k", "l", "m",
      "n", "o", "p", "q", "r", "s", "t", "u", "v", "w", "x", "y", "z">>

\* str.lower() without its effect on t
lower_Unchanged(t) == t

\* str.lower(), on ASCII text
lower(t) ==
    [i \in 1..Len(t) |->
        IF \E k \in 1..26 : UPPERCASE[k] = t[i]
        THEN LOWERCASE[CHOOSE k \in 1..26 : UPPERCASE[k] = t[i]]
        ELSE t[i]]

\* str.startswith(prefix)
startswith(t, prefix) ==
    Len(t) >= Len(prefix) /\ SubSeq(t, 1, Len(prefix)) = prefix

\* str.split(): the maximal runs of characters that are not whitespace
RECURSIVE split(_)
split(t) ==
    IF t = <<>> THEN <<>>
    ELSE IF t[Len(t)] \in WHITESPACE THEN split(SubSeq(t, 1, Len(t) - 1))
    ELSE IF Len(t) = 1 \/ t[Len(t) - 1] \in WHITESPACE
         THEN Append(split(SubSeq(t, 1, Len(t) - 1)), <<t[Len(t)]>>)
    ELSE [split(SubSeq(t, 1, Len(t) - 1)) EXCEPT
             ![Len(split(SubSeq(t, 1, Len(t) - 1)))] = Append(@, t[Len(t)])]

\* action.split()[-1]
LastToken(t) == split(t)[Len(split(t))]

DIGITS == {"0", "1", "2", "3", "4", "5", "6", "7", "8", "9"}

\* the literal of int(token) after its sign
Unsigned(token) ==
    IF token # <<>> /\ token[1] \in {"+", "-"} THEN Tail(token) ELSE token

\* int(token) raises ValueError unless the token is an optional sign and
\* decimal digits, single underscores allowed between digits
int_raises(token) ==
    IF /\ Unsigned(token) # <<>>
       /\ \A i \in 1..Len(Unsigned(token)) : Unsigned(token)[i] \in DIGITS \cup {"_"}
       /\ Unsigned(token)[1] # "_"
       /\ Unsigned(token)[Len(Unsigned(token))] # "_"
       /\ \A i \in 1..(Len(Unsigned(token)) - 1) :
              ~(Unsigned(token)[i] = "_" /\ Unsigned(token)[i + 1] = "_")
    THEN NoException
    ELSE "ValueError"

\* the value of a literal of digits and underscores
RECURSIVE DigitsValue(_)
DigitsValue(literal) ==
    IF literal = <<>> THEN 0
    ELSE IF literal[Len(literal)] = "_" THEN DigitsValue(SubSeq(literal, 1, Len(literal) - 1))
    ELSE 10 * DigitsValue(SubSeq(literal, 1, Len(literal) - 1))
             + (CHOOSE d \in 0..9 : DigitText(d) = literal[Len(literal)])

\* int(token), when it returns
int(token) ==
    IF token[1] = "-" THEN 0 - DigitsValue(Unsigned(token))
    ELSE DigitsValue(Unsigned(token))

\* lines 110-123 of parse_action on the stripped, lower-cased text: the
\* exception that leaves it
ParseRaises(action) ==
    IF action = DEFAULT_POSITION THEN NoException
    ELSE IF action = DROP_HOLDING THEN NoException
    ELSE IF action = TAKE_DECK THEN NoException
    ELSE IF startswith(action, TAKE_CARD_) THEN int_raises(LastToken(action))
    ELSE IF startswith(action, PLACE_AT_) THEN int_raises(LastToken(action))
    ELSE "ValueError"

\* lines 110-123 of parse_action on the stripped, lower-cased text: the dict
\* returned
ParseResult(action) ==
    IF action = DEFAULT_POSITION THEN [type |-> "default"]
    ELSE IF action = DROP_HOLDING THEN [type |-> "drop"]
    ELSE IF action = TAKE_DECK THEN [type |-> "take_deck"]
    ELSE IF startswith(action, TAKE_CARD_)
         THEN [type |-> "take_card", position |-> int(LastToken(action))]
    ELSE [type |-> "place", position |-> int(LastToken(action))]

\* the exception that leaves parse_action(action)
parse_action_raises(action) == ParseRaises(lower(strip(action)))

\* parse_action(action), when it returns
parse_action(action) == ParseResult(lower(strip(action)))

\* count_swaps(actions)
count_swaps(action_list) ==
    Cardinality({i \in 1..Len(action_list) : startswith(action_list[i], TAKE_CARD_)})

\* the loop of get_swap_positions over the first k actions: positions
RECURSIVE SwapPositionsLoop(_, _)
SwapPositionsLoop(action_list, k) ==
    IF k = 0 THEN <<>>
    ELSE IF /\ startswith(action_list[k], TAKE_CARD_)
            /\ int(LastToken(action_list[k]))
                   \notin Range(SwapPositionsLoop(action_list, k - 1))
    THEN Append(SwapPositionsLoop(action_list, k - 1), int(LastToken(action_list[k])))
    ELSE SwapPositionsLoop(action_list, k - 1)

\* the exception that leaves get_swap_positions: that of int() on the last
\* token of an action that starts with "take card "
get_swap_positions_raises(action_list) ==
    IF \E i \in 1..Len(action_list) :
           /\ startswith(action_list[i], TAKE_CARD_)
           /\ int_raises(LastToken(action_list[i])) # NoException
    THEN "ValueError"
    ELSE NoException

\* get_swap_positions(actions), when it returns
get_swap_positions(action_list) == SwapPositionsLoop(action_list, Len(action_list))

\* the exception that leaves get_poker_actions: evaluate's, when no slot is
\* empty
get_poker_actions_raises(h) ==
    IF \E i \in 1..Len(h) : h[i] = None THEN NoException ELSE evaluate_raises(h)

\* get_poker_actions(hand, mode), when it returns
get_poker_actions(h, m) ==
    IF PositionsWhere([i \in 1..Len(h) |-> h[i] = None]) # <<>>
    THEN generate_fill_actions(h)
    ELSE generate_swap_actions(h, threshold(m))

-----------------------------------------------------------------------------
(* main.py: demo_multi_round                                               *)

\* lines 113-114: hand[idx] = new_card, for pos = idx + 1 and the draw d; the
\* card that was there is old_card
Replaced(st, pos, d) ==
    [hand |-> [st.hand EXCEPT ![pos] = d.card],
     used |-> d.used,
     rng |-> d.rng,
     trash |-> st.trash \cup {st.hand[pos]}]

\* lines 107-115: the loop over swap_positions from its k-th entry on, and
\* its body given the draw of line 109; "break" when the draw is None
RECURSIVE ReplaceLoop(_, _, _)
RECURSIVE ReplaceBody(_, _, _, _)
ReplaceLoop(st, positions, k) ==
    IF k > Len(positions) THEN st
    ELSE ReplaceBody(st, positions, k, draw_card(st.used, st.rng))

ReplaceBody(st, positions, k, d) ==
    IF d.card = None THEN st
    ELSE ReplaceLoop(Replaced(st, positions[k], d), positions, k + 1)

\* "Execute swaps": the hand, the Deck and the replaced cards after the loop
\* the replacements without the test "if new_card is None": every swap
\* position gets what the draw returned
ExecuteSwaps_Unchecked(h, u, g, replaced, positions) ==
    [hand |-> [n \in 1..Len(h) |->
                  IF n \in Range(positions) THEN draw_card(u, g).card ELSE h[n]],
     used |-> u,
     rng |-> g,
     trash |-> replaced]

ExecuteSwaps(h, u, g, replaced, positions) ==
    ReplaceLoop([hand |-> h, used |-> u, rng |-> g, trash |-> replaced],
                positions, 1)

-----------------------------------------------------------------------------
(* The inputs of the calls                                                 *)

\* how many of HandPools the hands are drawn from
NumPools == 10

\* how many of HandPools the hands with empty slots are drawn from
NumPartialPools == 1

\* how many of ComparedHands compare_hands is given
CompareCount == 16

\* Six cards each; a hand is five distinct cards of one pool, in any order.
HandPools ==
    << \* royal flush, straight flush, flushes
       << <<9, "H">>, <<14, "H">>, <<13, "H">>, <<12, "H">>, <<11, "H">>, <<10, "H">> >>,
       \* the wheel, K-A-2-3-4, ace-low straight draws
       << <<13, "D">>, <<14, "H">>, <<2, "D">>, <<3, "C">>, <<4, "S">>, <<5, "H">> >>,
       \* four of a kind, full houses
       << <<9, "H">>, <<9, "D">>, <<7, "H">>, <<7, "D">>, <<7, "C">>, <<7, "S">> >>,
       \* two pair, one pair
       << <<7, "H">>, <<5, "C">>, <<5, "S">>, <<10, "H">>, <<10, "D">>, <<3, "S">> >>,
       \* three of a kind, one pair
       << <<13, "D">>, <<2, "S">>, <<9, "H">>, <<7, "H">>, <<7, "D">>, <<7, "C">> >>,
       \* high cards without a draw
       << <<14, "H">>, <<10, "D">>, <<8, "C">>, <<5, "S">>, <<2, "H">>, <<12, "C">> >>,
       \* four to a flush, with and without four to a straight
       << <<13, "H">>, <<6, "S">>, <<9, "H">>, <<8, "H">>, <<7, "H">>, <<2, "H">> >>,
       \* a straight, open-ended and inside straight draws
       << <<3, "D">>, <<9, "H">>, <<8, "D">>, <<7, "C">>, <<6, "S">>, <<5, "H">> >>,
       \* the wheel in one suit, the wheel with one card off suit
       << <<5, "D">>, <<14, "H">>, <<2, "H">>, <<3, "H">>, <<4, "H">>, <<5, "H">> >>,
       \* the ace-high straight, ace-high straight draws
       << <<2, "C">>, <<14, "S">>, <<13, "D">>, <<12, "C">>, <<11, "H">>, <<10, "S">> >>,
       \* pairs of aces, ace-low draws broken by a pair
       << <<14, "D">>, <<14, "C">>, <<2, "H">>, <<3, "H">>, <<4, "D">>, <<8, "S">> >> >>

UsedPools(n) == 1..(IF n < Len(HandPools) THEN n ELSE Len(HandPools))

\* the hands of five distinct cards of one pool, in every order
HandsOfPool(pool) ==
    {h \in [1..5 -> Range(pool)] : \A i, j \in 1..5 : i < j => h[i] # h[j]}

FullHands == UNION {HandsOfPool(HandPools[p]) : p \in UsedPools(NumPools)}

\* a hand with the slots of E emptied
Emptied(h, E) == [i \in 1..5 |-> IF i \in E THEN None ELSE h[i]]

\* the hands with at least one empty slot
PartialHands ==
    {Emptied(h, E) : h \in UNION {HandsOfPool(HandPools[p]) : p \in UsedPools(NumPartialPools)},
                     E \in (SUBSET (1..5)) \ {{}}}

\* hands for compare_hands: each category, and within a category keys that
\* are equal, or differ at the first entry, or differ only at a later one
ComparedHands ==
    << << <<10, "H">>, <<11, "H">>, <<12, "H">>, <<13, "H">>, <<14, "H">> >>,
       << <<9, "H">>, <<13, "H">>, <<12, "H">>, <<11, "H">>, <<10, "H">> >>,
       << <<5, "H">>, <<4, "H">>, <<3, "H">>, <<2, "H">>, <<14, "H">> >>,
       << <<7, "H">>, <<7, "D">>, <<9, "H">>, <<7, "C">>, <<7, "S">> >>,
       << <<7, "S">>, <<7, "C">>, <<7, "D">>, <<7, "H">>, <<9, "D">> >>,
       << <<9, "H">>, <<7, "H">>, <<9, "D">>, <<7, "D">>, <<7, "C">> >>,
       << <<9, "H">>, <<9, "D">>, <<9, "C">>, <<7, "D">>, <<7, "C">> >>,
       << <<13, "H">>, <<9, "H">>, <<8, "H">>, <<7, "H">>, <<2, "H">> >>,
       << <<9, "H">>, <<8, "D">>, <<7, "C">>, <<6, "S">>, <<5, "H">> >>,
       << <<14, "H">>, <<2, "D">>, <<3, "C">>, <<4, "S">>, <<5, "H">> >>,
       << <<7, "H">>, <<13, "D">>, <<7, "D">>, <<9, "H">>, <<7, "C">> >>,
       << <<7, "H">>, <<13, "D">>, <<7, "D">>, <<2, "S">>, <<7, "C">> >>,
       << <<5, "C">>, <<10, "H">>, <<5, "S">>, <<10, "D">>, <<7, "H">> >>,
       << <<5, "C">>, <<10, "H">>, <<5, "S">>, <<3, "S">>, <<7, "H">> >>,
       << <<14, "H">>, <<10, "D">>, <<8, "C">>, <<5, "S">>, <<12, "C">> >>,
       << <<14, "S">>, <<10, "C">>, <<8, "D">>, <<2, "H">>, <<12, "D">> >>,
       << <<12, "S">>, <<14, "D">>, <<10, "S">>, <<8, "S">>, <<5, "H">> >> >>

CompareInputs ==
    {ComparedHands[k] :
        k \in 1..(IF CompareCount < Len(ComparedHands) THEN CompareCount
                  ELSE Len(ComparedHands))}

\* hands of a wrong size: the first n < 5 slots of a hand, with and without
\* an empty slot, and hands of six slots
WrongSizeHands ==
    {SubSeq(Emptied(h, E), 1, n) : h \in CompareInputs, E \in SUBSET {1, 3}, n \in 0..4}
        \cup {Append(Emptied(h, E), h[1]) : h \in CompareInputs, E \in SUBSET {2}}

\* str.upper(), on ASCII text
upper(t) ==
    [i \in 1..Len(t) |->
        IF \E k \in 1..26 : LOWERCASE[k] = t[i]
        THEN UPPERCASE[CHOOSE k \in 1..26 : LOWERCASE[k] = t[i]]
        ELSE t[i]]

\* the commands of the vocabulary as the sequencer formats them
FormattedCommands ==
    {take_card(n) : n \in 1..5} \cup {place_at(n) : n \in 1..5}
        \cup {DEFAULT_POSITION, DROP_HOLDING, TAKE_DECK}

\* how many of MalformedTails are put after "take card " and "place at "
NumTails == 15

\* what follows "take card " and "place at " in the texts that are not
\* formatted commands
MalformedTails ==
    <<
      <<"0">>,
      <<"6">>,
      <<"9">>,
      <<"1", "0">>,
      <<"x">>,
      <<"-", "1">>,
      <<"+", "3">>,
      <<"3", " ", "4">>,
      <<"x", " ", "3">>,
      <<" ", "3">>,
      <<"3", "x">>,
      <<"1", "_", "0">>,
      <<"_", "1">>,
      <<"3", ".", "0">>,
      <<>>,
      <<"3", " ", "x">> >>

\* texts that start with none of the five forms
UnknownTexts ==
    {
      <<"u", "n", "k", "n", "o", "w", "n", " ", "a", "c", "t", "i", "o", "n">>,
      <<"t", "a", "k", "e">>,
      <<"t", "a", "k", "e", "c", "a", "r", "d", " ", "3">>,
      <<"t", "a", "k", "e", " ", "d", "e", "c", "k", " ", "3">>,
      <<"d", "r", "o", "p", " ", "h", "o", "l", "d", "i", "n", "g", " ", "n", "o", "w">>,
      <<"t", "a", "k", "e", "\t", "c", "a", "r", "d", " ", "3">>,
      <<"d", "e", "f", "a", "u", "l", "t", " ", " ", "p", "o", "s", "i", "t", "i", "o", "n">>,
      <<"p", "o", "s", "i", "t", "i", "o", "n", " ", "d", "e", "f", "a", "u", "l", "t">> }

\* the texts given to parse_action: the formatted commands in lower case, in
\* upper case and between spaces, and texts that are not formatted commands
ParseInputs ==
    FormattedCommands
        \cup {upper(t) : t \in FormattedCommands}
        \cup {<<" ">> \o t \o <<" ">> : t \in FormattedCommands}
        \cup {head \o MalformedTails[k] :
                 head \in {TAKE_CARD_, PLACE_AT_},
                 k \in 1..(IF NumTails < Len(MalformedTails) THEN NumTails
                           ELSE Len(MalformedTails))}
        \cup UnknownTexts

\* the longest list given to count_swaps and get_swap_positions
MaxListed == 2

\* texts parse_action accepts, of which the lists given to count_swaps and
\* get_swap_positions are made
ListedTexts ==
    {
      <<"t", "a", "k", "e", " ", "c", "a", "r", "d", " ", "3">>,
      <<"t", "a", "k", "e", " ", "c", "a", "r", "d", " ", "1">>,
      <<"T", "A", "K", "E", " ", "C", "A", "R", "D", " ", "3">>,
      <<" ", "t", "a", "k", "e", " ", "c", "a", "r", "d", " ", "2">>,
      <<"p", "l", "a", "c", "e", " ", "a", "t", " ", "3">>,
      <<"d", "e", "f", "a", "u", "l", "t", " ", "p", "o", "s", "i", "t", "i", "o", "n">>,
      <<"T", "a", "k", "e", " ", "C", "a", "r", "d", " ", "3", " ">> }

\* the lists of at most MaxListed of ListedTexts
ListedActions == UNION {[1..n -> ListedTexts] : n \in 0..MaxListed}

\* how many seeds a Deck is constructed with
NumSeeds == 4

\* Deck(seed=...): the seeds of the tests first
Seeds ==
    {(<<42, 123, 0, 1, 7>>)[k] : k \in 1..(IF NumSeeds < 5 THEN NumSeeds ELSE 5)}

\* how many calls one Deck serves
MaxCalls == 3

\* the cards given to mark_used: a card of the deck and a tuple that is no
\* card of the deck
MarkedCards == {<<14, "H">>, <<1, "X">>}

\* the lists given to mark_cards_used: the three cards of the tests, the
\* first 50 cards of the deck, and all 52
MarkedLists ==
    { << <<14, "H">>, <<13, "H">>, <<12, "H">> >>,
      SubSeq(create_full_deck, 1, 50),
      create_full_deck }

\* the counts given to draw_cards
DrawCounts == {0, 3}

\* the threads that call draw_card on one Deck
Threads == {1, 2}

\* the used sets of the Deck the threads share, when they call: a new Deck,
\* and a Deck with two unused cards
SharedUsed == {{}, Range(SubSeq(create_full_deck, 1, 50))}

\* how many seeds demo_multi_round is run with
NumLoopSeeds == 6

\* demo_multi_round(seed=...)
LoopSeeds ==
    {(<<688, 42, 510, 209, 123, 0, 7>>)[k] :
        k \in 1..(IF NumLoopSeeds < 7 THEN NumLoopSeeds ELSE 7)}

\* the largest number of rounds demo_multi_round is run with
MaxRounds == 20

\* demo_multi_round(rounds=...): none, one, the default, and many
RoundCounts == {0, 1, 2, MaxRounds}

\* the calls a thread makes on the shared hand: the entry point and the mode
CallKinds ==
    { <<"evaluate", "standard">>,
      <<"get_cards_to_discard", "conservative">>,
      <<"get_cards_to_discard", "aggressive">>,
      <<"get_poker_actions", "standard">> }

Modes == {"conservative", "standard", "aggressive"}

\* the modes given to get_discard_positions: the three of KEEP_THRESHOLD and
\* strings that are no key of it
AnyModes == Modes \cup {"reckless", "Standard"}

IsFull(h) == \A i \in 1..Len(h) : h[i] # None

-----------------------------------------------------------------------------
(* The calls                                                               *)

NoResult == <<>>

\* no Deck, no thread and no loop
NoDeck ==
    /\ used = {}
    /\ rng = 0
    /\ arg = NoResult
    /\ drawn = NoResult
    /\ remaining = NoResult
    /\ calls = 0
    /\ threads = NoResult
    /\ rounds = 0
    /\ round_num = 0
    /\ trash = {}

Blank ==
    /\ NoDeck
    /\ pc = "start"
    /\ raised = NoException
    /\ evaluation = NoResult
    /\ straight = NoResult
    /\ discards = NoResult
    /\ actions = NoResult
    /\ comparison = NoResult
    /\ parsed = NoResult
    /\ swap_count = NoResult
    /\ swap_positions = NoResult

\* HandEvaluator.evaluate(hand)
Evaluate ==
    /\ pc = "start"
    /\ pc' = "evaluate"
    /\ raised' = evaluate_raises(hand)
    /\ evaluation' = IF raised' = NoException THEN evaluate(hand) ELSE NoResult
    /\ UNCHANGED <<hand, hand2, hand3, mode, straight, discards, actions, comparison,
                   text, parsed, swap_count, swap_positions>>
    /\ UNCHANGED deckVars

\* HandEvaluator._check_straight(ranks), on the ranks of hand in slot order
CheckStraight ==
    /\ pc = "start"
    /\ IsFull(hand)
    /\ pc' = "check_straight"
    /\ straight' = check_straight([i \in 1..Len(hand) |-> hand[i][1]])
    /\ UNCHANGED <<hand, hand2, hand3, mode, raised, evaluation, discards, actions,
                   comparison, text, parsed, swap_count, swap_positions>>
    /\ UNCHANGED deckVars

\* get_discard_positions(hand, mode); evaluation is what its call of evaluate
\* returned
GetDiscardPositions ==
    /\ pc = "start"
    /\ pc' = "get_discard_positions"
    /\ raised' = evaluate_raises(hand)
    /\ evaluation' = IF raised' = NoException THEN evaluate(hand) ELSE NoResult
    /\ discards' = IF raised' = NoException
                   THEN get_discard_positions(hand, mode) ELSE NoResult
    /\ UNCHANGED <<hand, hand2, hand3, mode, straight, actions, comparison,
                   text, parsed, swap_count, swap_positions>>
    /\ UNCHANGED deckVars

\* get_poker_actions(hand, mode); discards is what its call of
\* get_cards_to_discard returned, and evaluation what that call's evaluate
\* returned, when it made one
GetPokerActions ==
    /\ pc = "start"
    /\ pc' = "get_poker_actions"
    /\ raised' = get_poker_actions_raises(hand)
    /\ evaluation' = IF raised' = NoException /\ IsFull(hand)
                     THEN evaluate(hand) ELSE NoResult
    /\ discards' = IF raised' = NoException /\ IsFull(hand)
                   THEN get_cards_to_discard(hand, threshold(mode)) ELSE NoResult
    /\ actions' = IF raised' = NoException
                  THEN get_poker_actions(hand, mode) ELSE NoResult
    /\ UNCHANGED <<hand, hand2, hand3, mode, straight, comparison,
                   text, parsed, swap_count, swap_positions>>
    /\ UNCHANGED deckVars

\* HandEvaluator.compare_hands(hand, hand2), (hand2, hand), (hand2, hand3) and
\* (hand, hand3)
CompareHands ==
    /\ pc = "start"
    /\ pc' = "compare_hands"
    /\ comparison' = [ab |-> compare_hands(hand, hand2),
                      ba |-> compare_hands(hand2, hand),
                      bc |-> compare_hands(hand2, hand3),
                      ac |-> compare_hands(hand, hand3)]
    /\ UNCHANGED <<hand, hand2, hand3, mode, raised, evaluation, straight, discards,
                   actions, text, parsed, swap_count, swap_positions>>
    /\ UNCHANGED deckVars

\* parse_action(text)
ParseAction ==
    /\ pc = "start"
    /\ pc' = "parse_action"
    /\ raised' = parse_action_raises(text)
    /\ parsed' = IF raised' = NoException THEN parse_action(text) ELSE NoResult
    /\ UNCHANGED <<hand, hand2, hand3, mode, evaluation, straight, discards, actions,
                   comparison, text, swap_count, swap_positions>>
    /\ UNCHANGED deckVars

\* count_swaps(actions), on the list get_poker_actions returned or on a list
\* the caller made
CountSwaps ==
    /\ pc \in {"get_poker_actions", "listed"}
    /\ raised = NoException
    /\ pc' = "count_swaps"
    /\ swap_count' = count_swaps(actions)
    /\ UNCHANGED <<hand, hand2, hand3, mode, raised, evaluation, straight, discards,
                   actions, comparison, text, parsed, swap_positions>>
    /\ UNCHANGED deckVars

\* get_swap_positions(actions), on the list get_poker_actions returned or on a
\* list the caller made
GetSwapPositions ==
    /\ pc \in {"get_poker_actions", "listed"}
    /\ raised = NoException
    /\ pc' = "get_swap_positions"
    /\ raised' = get_swap_positions_raises(actions)
    /\ swap_positions' = IF raised' = NoException
                         THEN get_swap_positions(actions) ELSE NoResult
    /\ UNCHANGED <<hand, hand2, hand3, mode, evaluation, straight, discards, actions,
                   comparison, text, parsed, swap_count>>
    /\ UNCHANGED deckVars

\* what no call on a Deck reads or writes
callVars == <<hand2, hand3, mode, raised, straight, discards, comparison, text,
              parsed, swap_count>>

\* what a call on a Deck leaves as it is, besides the Deck's own fields
DeckFrame ==
    UNCHANGED <<callVars, hand, actions, evaluation, swap_positions, threads,
                rounds, round_num, trash>>

\* deck.draw_card()
DrawCard ==
    /\ calls < MaxCalls
    /\ pc' = "draw_card"
    /\ arg' = NoResult
    /\ \E d \in {draw_card(used, rng)} :
           /\ drawn' = d.card
           /\ used' = d.used
           /\ rng' = d.rng
    /\ calls' = calls + 1
    /\ UNCHANGED remaining
    /\ DeckFrame

\* deck.draw_cards(count)
DrawCards ==
    /\ calls < MaxCalls
    /\ \E count \in DrawCounts :
           \E d \in {draw_cards(used, rng, count)} :
               /\ arg' = count
               /\ drawn' = d.cards
               /\ used' = d.used
               /\ rng' = d.rng
    /\ pc' = "draw_cards"
    /\ calls' = calls + 1
    /\ UNCHANGED remaining
    /\ DeckFrame

\* deck.generate_initial_hand()
GenerateInitialHand ==
    /\ calls < MaxCalls
    /\ pc' = "generate_initial_hand"
    /\ arg' = NoResult
    /\ \E d \in {generate_initial_hand(used, rng)} :
           /\ drawn' = d.cards
           /\ used' = d.used
           /\ rng' = d.rng
    /\ calls' = calls + 1
    /\ UNCHANGED remaining
    /\ DeckFrame

\* deck.mark_used(card)
MarkUsed ==
    /\ calls < MaxCalls
    /\ \E card \in MarkedCards :
           /\ arg' = card
           /\ used' = mark_used(used, card)
    /\ pc' = "mark_used"
    /\ calls' = calls + 1
    /\ UNCHANGED <<rng, drawn, remaining>>
    /\ DeckFrame

\* deck.mark_cards_used(cards)
MarkCardsUsed ==
    /\ calls < MaxCalls
    /\ \E cards \in MarkedLists :
           /\ arg' = cards
           /\ used' = mark_cards_used(used, cards)
    /\ pc' = "mark_cards_used"
    /\ calls' = calls + 1
    /\ UNCHANGED <<rng, drawn, remaining>>
    /\ DeckFrame

\* deck.reset()
Reset ==
    /\ calls < MaxCalls
    /\ pc' = "reset"
    /\ arg' = NoResult
    /\ used' = {}
    /\ calls' = calls + 1
    /\ UNCHANGED <<rng, drawn, remaining>>
    /\ DeckFrame

\* deck.remaining_count(), asked once after a call
RemainingCount ==
    /\ pc # "remaining_count"
    /\ pc' = "remaining_count"
    /\ remaining' = remaining_count(used)
    /\ UNCHANGED <<used, rng, arg, drawn, calls>>
    /\ DeckFrame

\* what a step of a thread inside draw_card leaves as it is
ThreadFrame ==
    UNCHANGED <<callVars, hand, actions, evaluation, swap_positions, pc, arg, drawn,
                remaining, calls, rounds, round_num, trash>>

\* line 36 of draw_card in a thread: the list of the unused cards
ListAvailable ==
    \E t \in Threads :
        /\ threads[t].pc = "call"
        /\ threads' = [threads EXCEPT ![t].pc = "listed",
                                      ![t].available = available(used)]
        /\ UNCHANGED <<used, rng>>
        /\ ThreadFrame

\* lines 37-39 of draw_card in a thread: return None, or choose a card of the
\* thread's list
ChooseCard ==
    \E t \in Threads :
        /\ threads[t].pc = "listed"
        /\ IF threads[t].available = <<>>
           THEN /\ threads' = [threads EXCEPT ![t].pc = "returned",
                                              ![t].card = None]
                /\ UNCHANGED rng
           ELSE /\ threads' = [threads EXCEPT
                                 ![t].pc = "chosen",
                                 ![t].card = choice(rng, threads[t].available)]
                /\ rng' = rng_next(rng)
        /\ UNCHANGED used
        /\ ThreadFrame

\* lines 40-41 of draw_card in a thread: add the card and return it
AddCard ==
    \E t \in Threads :
        /\ threads[t].pc = "chosen"
        /\ used' = used \cup {threads[t].card}
        /\ threads' = [threads EXCEPT ![t].pc = "returned"]
        /\ UNCHANGED rng
        /\ ThreadFrame

\* what demo_multi_round leaves as it is
LoopFrame == UNCHANGED <<callVars, arg, drawn, remaining, calls, threads, rounds>>

\* lines 84-92 of demo_multi_round: a Deck of the seed, the initial hand and
\* its evaluation
Deal ==
    /\ pc = "start"
    /\ pc' = "dealt"
    /\ \E d \in {generate_initial_hand({}, Random(arg))} :
           /\ hand' = d.cards
           /\ used' = d.used
           /\ rng' = d.rng
    /\ evaluation' = evaluate(hand')
    /\ UNCHANGED <<actions, swap_positions, round_num, trash>>
    /\ LoopFrame

\* lines 94-118: one pass of the loop over the rounds
PlayRound ==
    /\ pc \in {"dealt", "round"}
    /\ round_num < rounds
    /\ round_num' = round_num + 1
    /\ actions' = get_poker_actions(hand, "standard")
    /\ IF actions' = <<>>
       THEN /\ pc' = "final"
            /\ UNCHANGED <<hand, used, rng, trash, swap_positions, evaluation>>
       ELSE /\ pc' = "round"
            /\ swap_positions' = get_swap_positions(actions')
            /\ \E st \in {ExecuteSwaps(hand, used, rng, trash, swap_positions')} :
                   /\ hand' = st.hand
                   /\ used' = st.used
                   /\ rng' = st.rng
                   /\ trash' = st.trash
            /\ evaluation' = evaluate(hand')
    /\ LoopFrame

\* lines 120-122: the loop over the rounds is over
Finish ==
    /\ pc \in {"dealt", "round"}
    /\ round_num = rounds
    /\ pc' = "final"
    /\ UNCHANGED <<hand, used, rng, trash, actions, swap_positions, evaluation,
                   round_num>>
    /\ LoopFrame

\* what a step of a call on the shared hand leaves as it is
CallFrame ==
    UNCHANGED <<callVars, actions, evaluation, swap_positions, pc, used, rng, arg,
                drawn, remaining, calls, rounds, round_num, trash>>

\* a thread enters its call: get_poker_actions returns the fill commands for
\* a hand with an empty slot (lines 162-169); get_poker_actions and
\* get_discard_positions make their own PokerStrategy(mode)
StartCall ==
    \E t \in Threads :
        /\ threads[t].pc = "call"
        /\ IF threads[t].kind[1] = "get_poker_actions" /\ ~IsFull(hand)
           THEN threads' = [threads EXCEPT
                              ![t].pc = "returned",
                              ![t].result = generate_fill_actions(hand)]
           ELSE threads' = [threads EXCEPT
                              ![t].pc = "begun",
                              ![t].threshold = threshold(threads[t].kind[2])]
        /\ UNCHANGED hand
        /\ CallFrame

\* HandEvaluator.evaluate(hand) in a thread: the entry point itself, or the
\* call of line 49 of get_cards_to_discard
EvaluateHand ==
    \E t \in Threads :
        /\ threads[t].pc = "begun"
        /\ hand' = HandAfterSorted(hand)
        /\ IF threads[t].kind[1] = "evaluate"
           THEN threads' = [threads EXCEPT ![t].pc = "returned",
                                           ![t].result = evaluate(hand)]
           ELSE threads' = [threads EXCEPT ![t].pc = "evaluated",
                                           ![t].hand_rank = evaluate(hand)[1]]
        /\ CallFrame

\* lines 51-114 of get_cards_to_discard in a thread
DecideDiscards ==
    \E t \in Threads :
        /\ threads[t].pc = "evaluated"
        /\ IF threads[t].kind[1] = "get_cards_to_discard"
           THEN threads' = [threads EXCEPT
                              ![t].pc = "returned",
                              ![t].result = DiscardByRank(hand, threads[t].threshold,
                                                          threads[t].hand_rank)]
           ELSE threads' = [threads EXCEPT
                              ![t].pc = "decided",
                              ![t].discard_positions =
                                  DiscardByRank(hand, threads[t].threshold,
                                                threads[t].hand_rank)]
        /\ UNCHANGED hand
        /\ CallFrame

\* lines 66-92 of generate_swap_actions in a thread, and the return of
\* get_poker_actions
BuildActions ==
    \E t \in Threads :
        /\ threads[t].pc = "decided"
        /\ threads' = [threads EXCEPT
                         ![t].pc = "returned",
                         ![t].result = SwapActions(threads[t].discard_positions)]
        /\ UNCHANGED hand
        /\ CallFrame

\* a thread repeats its call on the same hand and mode, once
CallAgain ==
    \E t \in Threads :
        /\ threads[t].pc = "returned"
        /\ threads[t].count = 1
        /\ threads' = [threads EXCEPT ![t].pc = "call",
                                      ![t].count = 2,
                                      ![t].first = threads[t].result]
        /\ UNCHANGED hand
        /\ CallFrame

-----------------------------------------------------------------------------
(* The specifications                                                      *)

\* the strategy and the sequencer, on every hand and mode
Init ==
    /\ hand \in FullHands \cup PartialHands
    /\ hand2 = None
    /\ hand3 = None
    /\ mode \in Modes
    /\ text = NoResult
    /\ Blank

Next == GetDiscardPositions \/ GetPokerActions

Spec == Init /\ [][Next]_vars

\* the evaluator, on every full hand, on hands with empty slots and on hands
\* of a wrong size
InitEval ==
    /\ hand \in FullHands \cup PartialHands \cup WrongSizeHands
    /\ hand2 = None
    /\ hand3 = None
    /\ mode = "standard"
    /\ text = NoResult
    /\ Blank

NextEval == Evaluate \/ CheckStraight

SpecEval == InitEval /\ [][NextEval]_vars

\* the comparator, on every three hands
InitCompare ==
    /\ hand \in CompareInputs
    /\ hand2 \in CompareInputs
    /\ hand3 \in CompareInputs
    /\ mode = "standard"
    /\ text = NoResult
    /\ Blank

NextCompare == CompareHands

SpecCompare == InitCompare /\ [][NextCompare]_vars

\* the parser, on every text
InitParse ==
    /\ hand = None
    /\ hand2 = None
    /\ hand3 = None
    /\ mode = "standard"
    /\ text \in ParseInputs
    /\ Blank

NextParse == ParseAction

SpecParse == InitParse /\ [][NextParse]_vars

\* the views of a command list: of the list get_poker_actions returns for a
\* full hand, and of a list the caller made
InitViews ==
    /\ NoDeck
    /\ hand2 = None
    /\ hand3 = None
    /\ text = NoResult
    /\ raised = NoException
    /\ evaluation = NoResult
    /\ straight = NoResult
    /\ discards = NoResult
    /\ comparison = NoResult
    /\ parsed = NoResult
    /\ swap_count = NoResult
    /\ swap_positions = NoResult
    /\ \/ /\ pc = "start"
          /\ hand \in CompareInputs
          /\ mode \in Modes
          /\ actions = NoResult
       \/ /\ pc = "listed"
          /\ hand = None
          /\ mode = "standard"
          /\ actions \in ListedActions

NextViews == GetPokerActions \/ CountSwaps \/ GetSwapPositions

SpecViews == InitViews /\ [][NextViews]_vars

\* no call of the package besides those on the Deck
NoCall ==
    /\ hand = None
    /\ hand2 = None
    /\ hand3 = None
    /\ mode = "standard"
    /\ text = NoResult
    /\ raised = NoException
    /\ evaluation = NoResult
    /\ straight = NoResult
    /\ discards = NoResult
    /\ actions = NoResult
    /\ comparison = NoResult
    /\ parsed = NoResult
    /\ swap_count = NoResult
    /\ swap_positions = NoResult

\* one Deck, from its construction: Deck(seed)
InitDeck ==
    /\ NoCall
    /\ pc = "start"
    /\ used = {}
    /\ \E seed \in Seeds : rng = Random(seed)
    /\ arg = NoResult
    /\ drawn = NoResult
    /\ remaining = NoResult
    /\ calls = 0
    /\ threads = NoResult
    /\ rounds = 0
    /\ round_num = 0
    /\ trash = {}

NextDeck ==
    \/ DrawCard
    \/ DrawCards
    \/ GenerateInitialHand
    \/ MarkUsed
    \/ MarkCardsUsed
    \/ Reset
    \/ RemainingCount

SpecDeck == InitDeck /\ [][NextDeck]_vars

\* two threads call draw_card on one Deck, of which remaining_count() was
\* asked before
InitRace ==
    /\ NoCall
    /\ pc = "remaining_count"
    /\ used \in SharedUsed
    /\ \E seed \in Seeds : rng = Random(seed)
    /\ arg = NoResult
    /\ drawn = NoResult
    /\ remaining = remaining_count(used)
    /\ calls = 0
    /\ threads = [t \in Threads |->
                     [pc |-> "call", available |-> <<>>, card |-> None]]
    /\ rounds = 0
    /\ round_num = 0
    /\ trash = {}

NextRace == ListAvailable \/ ChooseCard \/ AddCard

SpecRace == InitRace /\ [][NextRace]_vars

\* get_discard_positions on full hands, in every mode and in modes that
\* KEEP_THRESHOLD does not know
InitModes ==
    /\ hand \in FullHands
    /\ hand2 = None
    /\ hand3 = None
    /\ mode \in AnyModes
    /\ text = NoResult
    /\ Blank

NextModes == GetDiscardPositions

SpecModes == InitModes /\ [][NextModes]_vars

\* demo_multi_round(rounds, seed)
InitLoop ==
    /\ NoCall
    /\ pc = "start"
    /\ used = {}
    /\ rng = 0
    /\ arg \in LoopSeeds
    /\ drawn = NoResult
    /\ remaining = NoResult
    /\ calls = 0
    /\ threads = NoResult
    /\ rounds \in RoundCounts
    /\ round_num = 0
    /\ trash = {}

NextLoop == Deal \/ PlayRound \/ Finish

SpecLoop == InitLoop /\ [][NextLoop]_vars

\* two threads call the entry points on one hand list, each twice
InitCalls ==
    /\ hand \in CompareInputs
    /\ hand2 = None
    /\ hand3 = None
    /\ mode = "standard"
    /\ text = NoResult
    /\ pc = "start"
    /\ raised = NoException
    /\ evaluation = NoResult
    /\ straight = NoResult
    /\ discards = NoResult
    /\ actions = NoResult
    /\ comparison = NoResult
    /\ parsed = NoResult
    /\ swap_count = NoResult
    /\ swap_positions = NoResult
    /\ used = {}
    /\ rng = 0
    /\ arg = NoResult
    /\ drawn = NoResult
    /\ remaining = NoResult
    /\ calls = 0
    /\ rounds = 0
    /\ round_num = 0
    /\ trash = {}
    /\ \E kinds \in [Threads -> CallKinds] :
           threads = [t \in Threads |->
                         [kind |-> kinds[t], pc |-> "call", count |-> 1,
                          threshold |-> NoResult, hand_rank |-> NoResult,
                          discard_positions |-> NoResult, result |-> NoResult,
                          first |-> NoResult]]

NextCalls == StartCall \/ EvaluateHand \/ DecideDiscards \/ BuildActions \/ CallAgain

SpecCalls == InitCalls /\ [][NextCalls]_vars

-----------------------------------------------------------------------------
(* What the properties are stated with                                     *)

\* the set of ranks of a hand without an empty slot
RanksOf(h) == {h[i][1] : i \in 1..5}

\* the ranks that n cards of the hand have
RanksHeld(h, n) == {r \in RanksOf(h) : Cardinality({i \in 1..5 : h[i][1] = r}) = n}

\* the one element of a set of one
TheOne(S) == CHOOSE r \in S : TRUE

\* the elements of a set of numbers, highest first
Descending(S) ==
    [k \in 1..Cardinality(S) |-> CHOOSE r \in S : Cardinality({x \in S : x > r}) = k - 1]

\* all five cards of one suit
OneSuit(h) == \A i \in 1..5 : h[i][2] = h[1][2]

\* the high card of the straight that the ranks of the hand form, the ace
\* counting low in A-2-3-4-5; 0 when they form none
StraightHigh(h) ==
    IF RanksOf(h) = {14, 2, 3, 4, 5} THEN 5
    ELSE IF \E hi \in 6..14 : RanksOf(h) = (hi - 4)..hi
         THEN CHOOSE hi \in 6..14 : RanksOf(h) = (hi - 4)..hi
         ELSE 0

\* the category of a hand by the precedence order: <<integer, display name>>
ExpectedCategory(h) ==
    IF OneSuit(h) /\ StraightHigh(h) = 14 THEN <<9, "Royal Flush">>
    ELSE IF OneSuit(h) /\ StraightHigh(h) # 0 THEN <<8, "Straight Flush">>
    ELSE IF RanksHeld(h, 4) # {} THEN <<7, "Four of a Kind">>
    ELSE IF RanksHeld(h, 3) # {} /\ RanksHeld(h, 2) # {} THEN <<6, "Full House">>
    ELSE IF OneSuit(h) THEN <<5, "Flush">>
    ELSE IF StraightHigh(h) # 0 THEN <<4, "Straight">>
    ELSE IF RanksHeld(h, 3) # {} THEN <<3, "Three of a Kind">>
    ELSE IF Cardinality(RanksHeld(h, 2)) = 2 THEN <<2, "Two Pair">>
    ELSE IF Cardinality(RanksHeld(h, 2)) = 1 THEN <<1, "One Pair">>
    ELSE <<0, "High Card">>

\* the tiebreak key of a hand of the category
ExpectedKey(h, category) ==
    CASE category = FOUR_OF_A_KIND -> <<TheOne(RanksHeld(h, 4)), TheOne(RanksHeld(h, 1))>>
      [] category = FULL_HOUSE -> <<TheOne(RanksHeld(h, 3)), TheOne(RanksHeld(h, 2))>>
      [] category \in {FLUSH, HIGH_CARD} -> Descending(RanksOf(h))
      [] category \in {STRAIGHT, STRAIGHT_FLUSH, ROYAL_FLUSH} -> <<StraightHigh(h)>>
      [] category = THREE_OF_A_KIND ->
             <<TheOne(RanksHeld(h, 3))>> \o Descending(RanksHeld(h, 1))
      [] category = TWO_PAIR -> Descending(RanksHeld(h, 2)) \o <<TheOne(RanksHeld(h, 1))>>
      [] category = ONE_PAIR -> <<TheOne(RanksHeld(h, 2))>> \o Descending(RanksHeld(h, 1))

\* the length of the tiebreak key of a category
KeyLength(category) ==
    CASE category \in {STRAIGHT, STRAIGHT_FLUSH, ROYAL_FLUSH} -> 1
      [] category \in {FOUR_OF_A_KIND, FULL_HOUSE} -> 2
      [] category \in {THREE_OF_A_KIND, TWO_PAIR} -> 3
      [] category = ONE_PAIR -> 4
      [] category \in {FLUSH, HIGH_CARD} -> 5

\* the hand with the cards of slots i and j exchanged
Exchanged(h, i, j) ==
    [k \in 1..5 |-> IF k = i THEN h[j] ELSE IF k = j THEN h[i] ELSE h[k]]

\* the holder number N of the command "take card N", 0 for any other command
TakeCardNumber(command) ==
    IF \E n \in 1..5 : command = TAKE_CARD_ \o <<DigitText(n)>>
    THEN CHOOSE n \in 1..5 : command = TAKE_CARD_ \o <<DigitText(n)>>
    ELSE 0

\* the holder numbers of the "take card N" commands of a list, in its order
TakeCardNumbers(commands) ==
    LET idx == SelectIdx([i \in 1..Len(commands) |-> TakeCardNumber(commands[i]) # 0])
    IN  [k \in 1..Len(idx) |-> TakeCardNumber(commands[idx[k]])]

\* the command texts with holder number n
TakeCardText(n) == <<"t", "a", "k", "e", " ", "c", "a", "r", "d", " ">>
                       \o <<(<<"1", "2", "3", "4", "5">>)[n]>>
PlaceAtText(n) == <<"p", "l", "a", "c", "e", " ", "a", "t", " ">>
                      \o <<(<<"1", "2", "3", "4", "5">>)[n]>>

\* the k-th smallest element of a set of numbers
KthSmallest(S, k) == CHOOSE e \in S : Cardinality({x \in S : x < e}) = k - 1

\* the empty slots of a hand, numbered from 1
EmptySlots(h) == {i \in 1..Len(h) : h[i] = None}

\* get_cards_to_discard has returned, in one of the calls that make it
DiscardsDecided ==
    /\ pc \in {"get_discard_positions", "get_poker_actions"}
    /\ raised = NoException
    /\ IsFull(hand)

-----------------------------------------------------------------------------
(* The discard decision                                                    *)

\* C1: in every mode, get_cards_to_discard returns the empty list for a full
\* hand whose category is Straight or better, and so for every hand whose
\* category is at or above the mode's keep-threshold (conservative Full House,
\* standard Straight, aggressive Four of a Kind).
C1_MadeHandsNeverBroken ==
    DiscardsDecided =>
        /\ evaluation[1] >= 4 => discards = <<>>
        /\ mode = "conservative" /\ evaluation[1] >= 6 => discards = <<>>
        /\ mode = "standard" /\ evaluation[1] >= 4 => discards = <<>>
        /\ mode = "aggressive" /\ evaluation[1] >= 7 => discards = <<>>

\* a straight, below the aggressive threshold, is kept whole
C1_Witness ==
    /\ pc = "get_discard_positions"
    /\ raised = NoException
    /\ IsFull(hand)
    /\ mode = "aggressive"
    /\ evaluation[1] = STRAIGHT
    /\ discards = <<>>

\* C2: for every full hand and mode, get_cards_to_discard returns at most 3
\* entries, pairwise distinct, each a slot index in 0..4.
C2_DiscardListShape ==
    DiscardsDecided =>
        /\ Len(discards) <= 3
        /\ \A i, j \in 1..Len(discards) : i < j => discards[i] # discards[j]
        /\ \A i \in 1..Len(discards) : discards[i] \in 0..4

\* three cards are discarded, the last slot among them
C2_Witness ==
    /\ pc = "get_discard_positions"
    /\ raised = NoException
    /\ IsFull(hand)
    /\ Len(discards) = 3
    /\ \E i \in 1..3 : discards[i] = 4
    /\ evaluation[1] = HIGH_CARD

\* the positions (0-based) of a set, lowest first
Ascending(S) == [k \in 1..Cardinality(S) |-> KthSmallest(S, k)]

\* the positions (0-based) whose rank no other card of the hand has
UnmatchedPositions(h) == {p \in 0..4 : h[p + 1][1] \in RanksHeld(h, 1)}

\* the positions (0-based) of the cards that are not of suit s
OffSuitPositions(h, s) == {p \in 0..4 : h[p + 1][2] # s}

\* exactly four cards of the hand share a suit
FourToAFlush(h) == \E i \in 1..5 : Cardinality(OffSuitPositions(h, h[i][2])) = 1

\* the positions (0-based) of the cards with an effective rank in b..b+4,
\* an ace counting as 14 and as 1
InWindow(h, b) ==
    {p \in 0..4 : \/ h[p + 1][1] \in b..(b + 4)
                  \/ h[p + 1][1] = 14 /\ 1 \in b..(b + 4)}

\* the bases of the windows that hold four of the cards
DrawBases(h) == {b \in 1..14 : Cardinality(InWindow(h, b)) >= 4}

\* the positions (0-based) of the three lowest ranks of a hand of five ranks
ThreeLowest(h) == {p \in 0..4 : Cardinality({q \in 0..4 : h[q + 1][1] < h[p + 1][1]}) < 3}

\* C12: for every hand of category Three of a Kind, Two Pair or One Pair, in
\* every mode, the discard list is exactly the positions, ascending, whose rank
\* occurs once in the hand: 2 positions, 1 position and 3 positions; no
\* position of a paired or tripled rank is discarded.
C12_UnmatchedCardsDiscarded ==
    DiscardsDecided /\ evaluation[1] \in {1, 2, 3} =>
        /\ discards = Ascending(UnmatchedPositions(hand))
        /\ Len(discards) = (CASE evaluation[1] = 3 -> 2
                              [] evaluation[1] = 2 -> 1
                              [] evaluation[1] = 1 -> 3)
        /\ \A k \in 1..Len(discards) :
               Cardinality({i \in 1..5 : hand[i][1] = hand[discards[k] + 1][1]}) = 1

\* two pair in aggressive mode, the kicker between the pairs: only it goes
C12_Witness ==
    /\ pc = "get_discard_positions"
    /\ raised = NoException
    /\ mode = "aggressive"
    /\ evaluation[1] = TWO_PAIR
    /\ discards = <<2>>

\* C13: for every High Card hand in which exactly 4 cards share a suit, the
\* discard list is the single off-suit position, also when four of the cards
\* are a straight draw.
C13_FlushDrawFirst ==
    DiscardsDecided /\ evaluation[1] = HIGH_CARD /\ FourToAFlush(hand) =>
        \E i \in 1..5 :
            /\ Cardinality(OffSuitPositions(hand, hand[i][2])) = 1
            /\ discards = Ascending(OffSuitPositions(hand, hand[i][2]))

\* four hearts and 6-7-8-9: the spade six goes, not the king outside the
\* straight draw
C13_Witness ==
    /\ pc = "get_discard_positions"
    /\ raised = NoException
    /\ evaluation[1] = HIGH_CARD
    /\ hand[2] = <<6, "S">>
    /\ hand[5] = <<13, "H">>
    /\ DrawBases(hand) # {}
    /\ discards = <<1>>

\* C14: for every High Card hand without four to a flush: if some window of 5
\* consecutive ranks b..b+4, an ace counting as 14 and as 1, holds 4 of the
\* cards, the discard list is the one position outside the 4 cards of the
\* qualifying window of smallest b; if there is none, the rule does not apply
\* and three cards are discarded.
C14_StraightDraw ==
    DiscardsDecided /\ evaluation[1] = HIGH_CARD /\ ~FourToAFlush(hand) =>
        IF DrawBases(hand) # {}
        THEN discards = Ascending((0..4) \ InWindow(hand, KthSmallest(DrawBases(hand), 1)))
        ELSE Len(discards) = 3

\* K-A-2-3-4 with the king first: the ace counts low and the king goes
C14_Witness ==
    /\ pc = "get_discard_positions"
    /\ raised = NoException
    /\ RanksOf(hand) = {13, 14, 2, 3, 4}
    /\ hand[1][1] = 13
    /\ discards = <<0>>

\* C15: for every High Card hand with neither four to a flush nor four to a
\* straight, the discard list is exactly the 3 positions of the three lowest
\* ranks, and the two positions kept hold the two highest ranks.
C15_ThreeLowestDiscarded ==
    DiscardsDecided /\ evaluation[1] = HIGH_CARD /\ ~FourToAFlush(hand)
            /\ DrawBases(hand) = {} =>
        /\ Len(discards) = 3
        /\ Range(discards) = ThreeLowest(hand)
        /\ \A p \in (0..4) \ Range(discards) :
               hand[p + 1][1] \in {Descending(RanksOf(hand))[1], Descending(RanksOf(hand))[2]}

\* A-10-8-5-Q: the ace and the queen, first and last, are kept
C15_Witness ==
    /\ pc = "get_discard_positions"
    /\ raised = NoException
    /\ evaluation[1] = HIGH_CARD
    /\ hand[1][1] = 14
    /\ hand[5][1] = 12
    /\ Range(discards) = {1, 2, 3}
    /\ DrawBases(hand) = {}

\* the keep-threshold of a mode
KeepThreshold(m) ==
    CASE m = "conservative" -> 6
      [] m = "standard" -> 4
      [] m = "aggressive" -> 7

C17_ModesAgree ==
    DiscardsDecided =>
        /\ mode = "conservative" /\ evaluation[1] >= 4 =>
               Len(discards) <= Len(get_discard_positions(hand, "standard"))
        /\ mode = "aggressive" /\ evaluation[1] < 4 =>
               discards = get_discard_positions(hand, "standard")

\* three of a kind in aggressive mode: the two kickers go, as in standard
C17_Witness ==
    /\ pc = "get_discard_positions"
    /\ raised = NoException
    /\ mode = "aggressive"
    /\ evaluation[1] = THREE_OF_A_KIND
    /\ Len(discards) = 2
    /\ discards = get_discard_positions(hand, "standard")

\* C29: for every hand of 5 distinct cards and every mode, the number of
\* discards is fixed by the category: 0 for Straight or better, 2 for Three of
\* a Kind, 1 for Two Pair, 3 for One Pair, and for High Card 1 with a flush or
\* straight draw and 3 without, never 0 or 2; so the truncation to
\* MAX_SWAP_PER_ROUND removes no position, and get_poker_actions returns the
\* empty list exactly for a hand without empty slot of category Straight or
\* better.
C29_DiscardCountByCategory ==
    /\ DiscardsDecided =>
           /\ Len(discards) =
                  (CASE evaluation[1] >= STRAIGHT -> 0
                     [] evaluation[1] = THREE_OF_A_KIND -> 2
                     [] evaluation[1] = TWO_PAIR -> 1
                     [] evaluation[1] = ONE_PAIR -> 3
                     [] evaluation[1] = HIGH_CARD ->
                            IF FourToAFlush(hand) \/ DrawBases(hand) # {}
                            THEN 1 ELSE 3)
           /\ evaluation[1] = ExpectedCategory(hand)[1]
           /\ evaluation[1] < STRAIGHT =>
                  /\ discards = DiscardPositions(hand, evaluation[1],
                                                 Counter([i \in 1..5 |-> hand[i][1]]))
                  /\ Len(discards) <= MAX_SWAP_PER_ROUND
    /\ pc = "get_poker_actions" /\ raised = NoException =>
           (actions = <<>> <=>
                IsFull(hand) /\ ExpectedCategory(hand)[1] >= STRAIGHT)

\* a High Card hand without a draw in aggressive mode: three discards and a
\* command list that is not empty
C29_Witness ==
    /\ pc = "get_poker_actions"
    /\ raised = NoException
    /\ IsFull(hand)
    /\ mode = "aggressive"
    /\ evaluation[1] = HIGH_CARD
    /\ ~FourToAFlush(hand)
    /\ DrawBases(hand) = {}
    /\ Len(discards) = 3
    /\ actions # <<>>

Alone(kind, h) ==
    CASE kind[1] = "evaluate" -> evaluate(h)
      [] kind[1] = "get_cards_to_discard" -> get_discard_positions(h, kind[2])
      [] kind[1] = "get_poker_actions" -> get_poker_actions(h, kind[2])

\* C23: evaluate, get_cards_to_discard and get_poker_actions leave the hand
\* list they are given as it is and share no state: in every interleaving of
\* the steps of two threads' calls on one hand, every call returns what it
\* returns when run alone, and a repeated call returns what the first
\* returned (an empty discard list is empty again).
C23_CallsArePure ==
    [][/\ hand' = hand
       /\ \A t \in Threads :
              threads'[t].pc = "returned" =>
                  /\ threads'[t].result = Alone(threads'[t].kind, hand)
                  /\ threads'[t].count = 2 =>
                         threads'[t].result = threads'[t].first]_vars

\* a repeated get_cards_to_discard returned the empty list again while the
\* other thread was inside get_poker_actions on the same hand
C23_Witness ==
    /\ threads # NoResult
    /\ threads[1].kind = <<"get_cards_to_discard", "conservative">>
    /\ threads[1].pc = "returned"
    /\ threads[1].count = 2
    /\ threads[1].result = <<>>
    /\ threads[1].first = <<>>
    /\ threads[2].kind = <<"get_poker_actions", "standard">>
    /\ threads[2].pc = "evaluated"
    /\ evaluate(hand)[1] = FLUSH

-----------------------------------------------------------------------------
(* The command list                                                        *)

\* C3: for a hand without an empty slot, get_poker_actions returns one block
\* of 8 commands per discarded position p, in the order of the discard list:
\* take card p+1, default position, drop holding, default position, take deck,
\* default position, place at p+1, default position; its length is 8 times the
\* number of discards, and no discard gives the empty list.
C3_SwapBlocks ==
    pc = "get_poker_actions" /\ IsFull(hand) =>
        /\ Len(actions) = 8 * Len(discards)
        /\ discards = <<>> => actions = <<>>
        /\ \A k \in 1..Len(discards) :
               SubSeq(actions, 8 * k - 7, 8 * k) =
                   <<TakeCardText(discards[k] + 1), DEFAULT_POSITION,
                     DROP_HOLDING, DEFAULT_POSITION,
                     TAKE_DECK, DEFAULT_POSITION,
                     PlaceAtText(discards[k] + 1), DEFAULT_POSITION>>

\* two cards are swapped, the first slot among them: 16 commands
C3_Witness ==
    /\ pc = "get_poker_actions"
    /\ IsFull(hand)
    /\ Len(discards) = 2
    /\ discards[1] = 0
    /\ Len(actions) = 16

\* C4 as stated: for every full hand and mode, the positions named by the
\* successive "take card N" commands of get_poker_actions are strictly
\* increasing.
C4_TakeCardsAscending ==
    pc = "get_poker_actions" /\ IsFull(hand) =>
        \A k \in 1..(Len(TakeCardNumbers(actions)) - 1) :
            TakeCardNumbers(actions)[k] < TakeCardNumbers(actions)[k + 1]

\* C4: for every full hand and mode, the positions named by the successive
\* "take card N" commands of get_poker_actions are pairwise distinct; they are
\* strictly increasing unless the hand is a High Card hand of which three
\* cards are swapped, and then the ranks of the cards they name are strictly
\* increasing.
C4_SwapBlockOrder ==
    pc = "get_poker_actions" /\ IsFull(hand) =>
        LET taken == TakeCardNumbers(actions)
        IN  /\ \A j, k \in 1..Len(taken) : j < k => taken[j] # taken[k]
            /\ ~(evaluation[1] = HIGH_CARD /\ Len(taken) = 3) =>
                   \A k \in 1..(Len(taken) - 1) : taken[k] < taken[k + 1]
            /\ evaluation[1] = HIGH_CARD /\ Len(taken) = 3 =>
                   \A k \in 1..2 : hand[taken[k]][1] < hand[taken[k + 1]][1]

\* a High Card hand without a draw whose lowest card is in a later slot than
\* its second lowest: the first block takes from the later slot
C4_Witness ==
    /\ pc = "get_poker_actions"
    /\ IsFull(hand)
    /\ evaluation[1] = HIGH_CARD
    /\ Len(TakeCardNumbers(actions)) = 3
    /\ TakeCardNumbers(actions)[1] > TakeCardNumbers(actions)[2]

ArmAtStart(h) ==
    [holding |-> FALSE, occupied |-> {n \in 1..5 : h[n] # None}, ok |-> TRUE]

\* the holder number n of the command "place at n", 0 for any other command
PlaceAtNumber(command) ==
    IF \E n \in 1..5 : command = PlaceAtText(n)
    THEN CHOOSE n \in 1..5 : command = PlaceAtText(n)
    ELSE 0

\* the arm after one more command: a take needs an empty gripper and, from a
\* slot, a card in the slot; a drop and a place need a held card, and a place
\* an empty slot
ArmStep(arm, command) ==
    IF command = DEFAULT_POSITION THEN arm
    ELSE IF command = DROP_HOLDING
    THEN [arm EXCEPT !.ok = arm.ok /\ arm.holding, !.holding = FALSE]
    ELSE IF command = TAKE_DECK
    THEN [arm EXCEPT !.ok = arm.ok /\ ~arm.holding, !.holding = TRUE]
    ELSE IF TakeCardNumber(command) # 0
    THEN [holding |-> TRUE,
          occupied |-> arm.occupied \ {TakeCardNumber(command)},
          ok |-> /\ arm.ok
                 /\ ~arm.holding
                 /\ TakeCardNumber(command) \in arm.occupied]
    ELSE IF PlaceAtNumber(command) # 0
    THEN [holding |-> FALSE,
          occupied |-> arm.occupied \cup {PlaceAtNumber(command)},
          ok |-> /\ arm.ok
                 /\ arm.holding
                 /\ PlaceAtNumber(command) \notin arm.occupied]
    ELSE [arm EXCEPT !.ok = FALSE]

\* the arm after the first k commands of a list
RECURSIVE ArmAfter(_, _, _)
ArmAfter(arm, commands, k) ==
    IF k = 0 THEN arm
    ELSE ArmStep(ArmAfter(arm, commands, k - 1), commands[k])

\* the holder numbers the commands of a list name
SlotsNamed(commands) ==
    {n \in 1..5 : \E i \in 1..Len(commands) :
                     commands[i] \in {TakeCardText(n), PlaceAtText(n)}}

\* the holder numbers of the cards that stay: occupied and not discarded
SlotsKept(h, discard_positions) ==
    {n \in 1..5 : h[n] # None /\ (n - 1) \notin Range(discard_positions)}

\* C25: the arm can execute the list get_poker_actions returns: from an empty
\* gripper and the slots occupied where the hand has a card, no command takes
\* while a card is held or from an empty slot, drops or places with an empty
\* gripper, or places into an occupied slot; every second command is
\* 'default position'; no command names a kept slot; at the end the gripper
\* is empty and the 5 slots are occupied.
C25_ArmProtocol ==
    pc = "get_poker_actions" /\ raised = NoException =>
        /\ ArmAfter(ArmAtStart(hand), actions, Len(actions)) =
               [holding |-> FALSE, occupied |-> 1..5, ok |-> TRUE]
        /\ \A i \in 1..Len(actions) : i % 2 = 0 => actions[i] = DEFAULT_POSITION
        /\ SlotsNamed(actions) \cap SlotsKept(hand, discards) = {}

\* three swaps: 24 commands, the first card taken from slot 1; the third new
\* card is held before the last place, and the gripper is empty at the end
C25_Witness ==
    /\ pc = "get_poker_actions"
    /\ raised = NoException
    /\ Len(actions) = 24
    /\ actions[1] = TakeCardText(1)
    /\ ArmAfter(ArmAtStart(hand), actions, 22).ok
    /\ ArmAfter(ArmAtStart(hand), actions, 22).holding
    /\ ~ArmAfter(ArmAtStart(hand), actions, 24).holding

-----------------------------------------------------------------------------
(* The parser and the views of a command list                              *)

\* the commands of the vocabulary, as parse_action returns them
Commands ==
    {[type |-> "take_card", position |-> n] : n \in 1..5}
        \cup {[type |-> "place", position |-> n] : n \in 1..5}
        \cup {[type |-> "default"], [type |-> "drop"], [type |-> "take_deck"]}

\* the text form of a command
CommandText(cmd) ==
    CASE cmd.type = "take_card" -> TakeCardText(cmd.position)
      [] cmd.type = "place" -> PlaceAtText(cmd.position)
      [] cmd.type = "default" -> DEFAULT_POSITION
      [] cmd.type = "drop" -> DROP_HOLDING
      [] cmd.type = "take_deck" -> TAKE_DECK

\* parse_action has returned or raised
Parsed == pc = "parse_action"

\* C18: for every command of the vocabulary (take card N and place at N for
\* N in 1..5, default position, drop holding, take deck), parse_action on the
\* command's text, in lower case and in upper case, returns the command's
\* type and the position N the text was formatted from.
C18_RoundTrip ==
    Parsed =>
        \A cmd \in Commands :
            text \in {CommandText(cmd), upper(CommandText(cmd))} =>
                /\ raised = NoException
                /\ parsed = cmd

\* "TAKE CARD 3" parsed to the take_card command of position 3
C18_Witness ==
    /\ Parsed
    /\ text = upper(TakeCardText(3))
    /\ text # TakeCardText(3)
    /\ raised = NoException
    /\ parsed = [type |-> "take_card", position |-> 3]

\* C19: parse_action returns a command only for a text that, trimmed and in
\* lower case, is exactly one of 'default position', 'drop holding',
\* 'take deck', 'take card N', 'place at N' with N in 1..5; for every other
\* text (unknown words, a missing or non-numeric N, N outside 1..5, extra
\* tokens) it raises ValueError and returns nothing.
C19_OnlyVocabularyParses ==
    Parsed =>
        IF \E cmd \in Commands : lower(strip(text)) = CommandText(cmd)
        THEN /\ raised = NoException
             /\ parsed \in Commands
        ELSE /\ raised = "ValueError"
             /\ parsed = NoResult

\* "take card 9" names no holder, and is parsed to the take_card command of
\* position 9
C19_Witness ==
    /\ Parsed
    /\ text = TAKE_CARD_ \o <<"9">>
    /\ raised = NoException
    /\ parsed = [type |-> "take_card", position |-> 9]

\* every entry of the list is a text parse_action accepts
AllAccepted(list) ==
    \A i \in 1..Len(list) : parse_action_raises(list[i]) = NoException

\* the positions of the entries parse_action classifies as take_card, in the
\* order of the list
TakeCardPositions(list) ==
    LET idx == SelectIdx([i \in 1..Len(list) |->
                             parse_action(list[i]).type = "take_card"])
    IN  [k \in 1..Len(idx) |-> parse_action(list[idx[k]]).position]

\* a list without its repeated entries, in first-seen order
FirstSeen(list) ==
    LET idx == SelectIdx([k \in 1..Len(list) |->
                             \A j \in 1..(k - 1) : list[j] # list[k]])
    IN  [k \in 1..Len(idx) |-> list[idx[k]]]

\* the list is the one get_poker_actions returned for the full hand
ListOfFullHand == Len(hand) = 5 /\ IsFull(hand)

\* C20: for every list of texts parse_action accepts, count_swaps returns
\* the number of entries parse_action classifies as take_card, and
\* get_swap_positions their positions without duplicates in first-seen order;
\* for the list get_poker_actions returned on a full hand, count_swaps is the
\* number of discarded positions and get_swap_positions the discarded
\* positions plus 1.
C20_ViewsOfCommandList ==
    /\ pc = "count_swaps" /\ AllAccepted(actions) =>
           /\ swap_count = Len(TakeCardPositions(actions))
           /\ ListOfFullHand => swap_count = Len(discards)
    /\ pc = "get_swap_positions" /\ AllAccepted(actions) =>
           /\ raised = NoException
           /\ swap_positions = FirstSeen(TakeCardPositions(actions))
           /\ ListOfFullHand =>
                  swap_positions = [k \in 1..Len(discards) |-> discards[k] + 1]

\* the list of the one command "TAKE CARD 3", which parse_action classifies
\* as take_card, counted as no swap
C20_Witness ==
    /\ pc = "count_swaps"
    /\ actions = <<upper(TakeCardText(3))>>
    /\ parse_action(actions[1]) = [type |-> "take_card", position |-> 3]
    /\ swap_count = 0

-----------------------------------------------------------------------------
(* The deck                                                                *)

\* the 52 cards
FiftyTwo == Range(create_full_deck)

\* the cards of the 52 that are not used
Unused(u) == FiftyTwo \ u

\* the entries of the list are pairwise distinct
Distinct(list) ==
    \A i, j \in 1..Len(list) : i # j => list[i] # list[j]

\* the list a drawing call returned: draw_card's card, if any, as a list of one
DrawnList(d, call) ==
    IF call = "draw_card" THEN (IF d = None THEN <<>> ELSE <<d>>) ELSE d

Drawing == {"draw_card", "draw_cards", "generate_initial_hand"}

\* C21: on one Deck, under any sequence of draw_card, draw_cards,
\* generate_initial_hand, mark_used, mark_cards_used and reset, the used set
\* holds every card drawn or marked since the last reset (only reset takes
\* cards out of it), a draw returns only cards of the 52 that are not in it,
\* no card twice, and right after reset each of the 52 cards is available.
C21_DrawnAtMostOnce ==
    [][/\ pc' \in Drawing =>
              /\ \A c \in Range(DrawnList(drawn', pc')) :
                     c \in FiftyTwo /\ c \notin used
              /\ Distinct(DrawnList(drawn', pc'))
              /\ used' = used \cup Range(DrawnList(drawn', pc'))
       /\ pc' = "mark_used" => used' = used \cup {arg'}
       /\ pc' = "mark_cards_used" => used' = used \cup Range(arg')
       /\ pc' = "reset" => Unused(used') = FiftyTwo
       /\ pc' = "remaining_count" => used' = used]_vars

\* a card drawn from a Deck of which other cards were used before
C21_Witness ==
    /\ pc = "draw_card"
    /\ calls >= 2
    /\ drawn \in FiftyTwo
    /\ Cardinality(used) >= 2

\* the smaller of two numbers
Min(a, b) == IF a < b THEN a ELSE b

\* C22: draw_card returns None exactly when all 52 cards are used, and then
\* leaves the used set as it is; draw_cards(n), n a count, raises nothing and
\* returns min(n, number of unused cards) pairwise distinct cards.
C22_ExhaustionIsAValue ==
    [][/\ pc' = "draw_card" =>
              /\ drawn' = None <=> Unused(used) = {}
              /\ drawn' = None => used' = used
       /\ pc' = "draw_cards" =>
              /\ raised' = NoException
              /\ Len(drawn') = Min(arg', Cardinality(Unused(used)))
              /\ Distinct(drawn')]_vars

\* draw_cards(3) on a Deck with two unused cards returned two cards
C22_Witness ==
    /\ pc = "draw_cards"
    /\ arg = 3
    /\ Len(drawn) = 2
    /\ Unused(used) = {}

\* C28: under any sequence of draw_card, draw_cards, mark_used,
\* mark_cards_used and reset, with any tuple and any repetition given to the
\* marking calls, remaining_count() is within 0..52 and is the number of
\* cards draw_card can still return.
C28_RemainingCount ==
    pc = "remaining_count" =>
        /\ remaining \in 0..52
        /\ remaining = Cardinality(Unused(used))

\* after mark_used((1, 'X')) alone, remaining_count() is 51 and all 52 cards
\* can still be drawn
C28_Witness ==
    /\ pc = "remaining_count"
    /\ used = {<<1, "X">>}
    /\ remaining = 51
    /\ Cardinality(Unused(used)) = 52

\* both threads have returned from draw_card
BothReturned == \A t \in Threads : threads[t].pc = "returned"

\* C24: when two threads call draw_card on one Deck that has two unused cards
\* or more, each call made of the steps list the unused cards, choose one,
\* add it to the used set, the two calls return two different cards and the
\* used set grows by two cards.
C24_DrawsSerialized ==
    threads # NoResult /\ BothReturned =>
        /\ threads[1].card # None
        /\ threads[2].card # None
        /\ threads[1].card # threads[2].card
        /\ remaining_count(used) = remaining - 2

\* both threads returned the same card, and the used set grew by one card
C24_Witness ==
    /\ threads # NoResult
    /\ BothReturned
    /\ threads[1].card # None
    /\ threads[1].card = threads[2].card
    /\ remaining_count(used) = remaining - 1

\* C27: in the multi-round loop, for any number of rounds, the hand given to
\* evaluate and to get_poker_actions holds 5 pairwise distinct cards and no
\* empty slot, also after a round whose replacements were abandoned because
\* draw_card returned None; no card replaced in an earlier round is in the
\* hand; and the loop ends after at most `rounds` rounds, before that only
\* when a round's command list is empty.
C27_LoopKeepsFullHand ==
    /\ pc \in {"dealt", "round", "final"} =>
           /\ Len(hand) = 5
           /\ IsFull(hand)
           /\ Distinct(hand)
           /\ Range(hand) \subseteq FiftyTwo
           /\ Range(hand) \cap trash = {}
           /\ round_num <= rounds
    /\ pc = "final" => round_num = rounds \/ actions = <<>>
    /\ pc = "final" /\ round_num < rounds => evaluation[1] >= STRAIGHT

\* a round with the Deck used up: cards were replaced in earlier rounds, the
\* command list is not empty, and the hand is still five cards
C27_Witness ==
    /\ pc = "round"
    /\ Unused(used) = {}
    /\ actions # <<>>
    /\ round_num < rounds
    /\ Cardinality(trash) = 47
    /\ Len(hand) = 5
    /\ IsFull(hand)

-----------------------------------------------------------------------------
(* The evaluation of a hand                                                *)

\* C6: for every hand of 5 distinct cards, evaluate returns the first matching
\* category in the order Royal Flush (flush, straight, straight-high 14),
\* Straight Flush, Four of a Kind, Full House (a triple and a pair), Flush,
\* Straight, Three of a Kind, Two Pair, One Pair, High Card, with the integers
\* 9 down to 0 and the matching display name.
C6_CategoryPrecedence ==
    pc = "evaluate" /\ raised = NoException =>
        /\ evaluation[1] = ExpectedCategory(hand)[1]
        /\ evaluation[3] = ExpectedCategory(hand)[2]
        /\ evaluation[3] = HAND_NAMES[evaluation[1] + 1]

\* a full house, which also holds three of a kind and a pair
C6_Witness ==
    /\ pc = "evaluate"
    /\ raised = NoException
    /\ IsFull(hand)
    /\ RanksHeld(hand, 3) # {}
    /\ RanksHeld(hand, 2) # {}
    /\ evaluation[1] = 6
    /\ evaluation[3] = "Full House"

\* C7: _check_straight reports a straight exactly when the 5 ranks are
\* distinct and either max - min = 4 (high = max) or the rank set is
\* {14,5,4,3,2} (high = 5), and no straight otherwise; so A-2-3-4-5 evaluates
\* to Straight, or Straight Flush when suited, never Royal Flush, with
\* tiebreak [5], and K-A-2-3-4 is not a straight.
C7_StraightDetection ==
    /\ pc = "check_straight" /\ Len(hand) = 5 =>
           LET ranks == RanksOf(hand)
               top == Descending(ranks)[1]
               bottom == Descending(ranks)[Cardinality(ranks)]
           IN  IF Cardinality(ranks) = 5 /\ top - bottom = 4
                   THEN straight = <<TRUE, top>>
               ELSE IF ranks = {14, 5, 4, 3, 2}
                   THEN straight = <<TRUE, 5>>
               ELSE straight[1] = FALSE
    /\ pc = "evaluate" /\ raised = NoException /\ RanksOf(hand) = {14, 5, 4, 3, 2} =>
           /\ evaluation[1] = (IF OneSuit(hand) THEN STRAIGHT_FLUSH ELSE STRAIGHT)
           /\ evaluation[2] = <<5>>
    /\ pc = "evaluate" /\ raised = NoException /\ RanksOf(hand) = {13, 14, 2, 3, 4} =>
           evaluation[1] \notin {STRAIGHT, STRAIGHT_FLUSH, ROYAL_FLUSH}

\* the wheel, with the ace in a slot after the five
C7_Witness ==
    /\ pc = "check_straight"
    /\ raised = NoException
    /\ Len(hand) = 5
    /\ IsFull(hand)
    /\ hand[1][1] = 5
    /\ hand[5][1] = 14
    /\ straight = <<TRUE, 5>>

\* C8: for every hand of 5 distinct cards, the tiebreak key of evaluate is:
\* Four of a Kind [quad rank, kicker]; Full House [triple rank, pair rank];
\* Flush and High Card the 5 ranks descending; Straight, Straight Flush and
\* Royal Flush [straight-high]; Three of a Kind [triple rank, the two kickers
\* descending]; Two Pair [higher pair, lower pair, kicker]; One Pair [pair
\* rank, the three kickers descending]. The length of the key is fixed by the
\* category.
C8_TiebreakKeys ==
    pc = "evaluate" /\ raised = NoException =>
        /\ evaluation[2] = ExpectedKey(hand, evaluation[1])
        /\ Len(evaluation[2]) = KeyLength(evaluation[1])

\* two pair whose lower pair comes first in the hand and whose kicker lies
\* between the pairs
C8_Witness ==
    /\ pc = "evaluate"
    /\ raised = NoException
    /\ IsFull(hand)
    /\ hand[1][1] = 5
    /\ evaluation[1] = TWO_PAIR
    /\ evaluation[2] = <<10, 5, 7>>

\* C9: evaluate assigns every 5 distinct cards one of the 10 categories, and
\* returns the identical (category, tiebreak key, name) for the hand with any
\* two of its cards exchanged; the hands evaluated are all the orders of their
\* cards, so the same holds of every permutation.
C9_OrderIndependence ==
    pc = "evaluate" /\ raised = NoException =>
        /\ evaluation[1] \in 0..9
        /\ \A i, j \in 1..5 : i < j => evaluate(Exchanged(hand, i, j)) = evaluation

\* a High Card hand given lowest card first
C9_Witness ==
    /\ pc = "evaluate"
    /\ raised = NoException
    /\ IsFull(hand)
    /\ evaluation[1] = HIGH_CARD
    /\ \A i \in 1..4 : hand[i][1] < hand[i + 1][1]
    /\ evaluation[2][1] = hand[5][1]

\* C11 as stated: whenever the input does not contain exactly 5 entries or
\* contains an empty slot, evaluate fails with the ValueError it raises for a
\* hand of the wrong size, and returns no result.
C11_InvalidHandError ==
    pc = "evaluate" /\ (Len(hand) # 5 \/ ~IsFull(hand)) =>
        /\ raised = "ValueError"
        /\ evaluation = NoResult

\* five slots, one of them empty: evaluate fails, with a TypeError
C11_Witness ==
    /\ pc = "evaluate"
    /\ Len(hand) = 5
    /\ ~IsFull(hand)
    /\ raised = "TypeError"
    /\ evaluation = NoResult

-----------------------------------------------------------------------------
(* The comparison of two hands                                             *)

\* the sign of the first difference of two sequences over their common
\* length, 0 when there is none
FirstDifference(s, t) ==
    LET n == IF Len(s) < Len(t) THEN Len(s) ELSE Len(t)
        differ == {k \in 1..n : s[k] # t[k]}
        first == CHOOSE k \in differ : \A m \in differ : k <= m
    IN  IF differ = {} THEN 0 ELSE IF s[first] > t[first] THEN 1 ELSE -1

\* category and tiebreak key of a hand as one sequence
CategoryAndKey(h) == <<evaluate(h)[1]>> \o evaluate(h)[2]

\* C10: compare_hands orders valid hands by category integer, then
\* lexicographically by tiebreak key; compare_hands(a,b) = -compare_hands(b,a);
\* a beats-or-ties b and b beats-or-ties c implies a beats-or-ties c; and it
\* returns 0 exactly when both hands have the same category and the same
\* tiebreak key.
C10_TotalPreorder ==
    pc = "compare_hands" /\ raised = NoException =>
        /\ comparison.ab = FirstDifference(CategoryAndKey(hand), CategoryAndKey(hand2))
        /\ comparison.ab = 0 - comparison.ba
        /\ comparison.ab >= 0 /\ comparison.bc >= 0 => comparison.ac >= 0
        /\ comparison.ab = 0 <=> CategoryAndKey(hand) = CategoryAndKey(hand2)

\* two different hands of the same category and key tie, and a chain of
\* three hands each beating the next
C10_Witness ==
    /\ pc = "compare_hands"
    /\ hand # hand2
    /\ comparison.ab = 0
    /\ comparison.bc = 1
    /\ comparison.ac = 1

=============================================================================
